---- MODULE Spec2Model ----
(***************************************************************************)
(* A model of the Kokoro text-to-speech engine of tts-rs: the engine's     *)
(* load / unload / synthesize state machine, the text segmenter, the       *)
(* phonemizer bridge, the chunker, the crossfade stitcher and the voice    *)
(* store.  The external collaborators (espeak-ng, the ONNX runtime, the    *)
(* file system) are oracles chosen nondeterministically by each action.    *)
(*                                                                         *)
(* Strings are sequences of characters, a character is a one-element       *)
(* atom written as a TLA+ string; Option<T> is a sequence of length 0      *)
(* (None) or 1 (Some).  Slices keep the 0-based half-open indices of the   *)
(* source.                                                                 *)
(***************************************************************************)
EXTENDS Integers, Sequences, FiniteSets, TLC

VARIABLES
    model,          \* KokoroEngine.model: Option<KokoroModel>
    model_path,     \* KokoroEngine.model_path: Option<PathBuf>
    cache_exists,   \* file system: does the optimized-graph cache file exist
    last,           \* the last engine call: its inputs, result and effects
    ids,            \* split_chunks: the token sequence given
    chunks,         \* split_chunks: the chunks returned
    split_start,    \* split_chunks: start, the position of its while loop
    dst,            \* append_with_crossfade: the accumulated buffer
    src,            \* append_with_crossfade: the chunk appended last
    prev,           \* append_with_crossfade: dst before the last append
    n_appended,     \* append_with_crossfade: the number of appends made
    archive,        \* VoiceStore::load: the entries of the voice archive
    store,          \* VoiceStore::load: its result
    style_res,      \* VoiceStore::get_style: the last query and its result
    text,           \* split_text_parts: the text given
    parts,          \* split_text_parts: the parts returned
    stdin_input,    \* canonicalize_espeak_stdin_payload: the string given
    stdin_payload,  \* canonicalize_espeak_stdin_payload: the payload returned
    lang_voice,     \* voice_lang: the voice name given
    lang_code,      \* voice_lang: its result
    espeak,         \* phonemize: how espeak-ng behaves during the call
    phon,           \* phonemize: its result and the invocations it made
    pc              \* position of the pure-function drivers

engineVars == <<model, model_path, cache_exists, last>>
chunkVars == <<ids, chunks, split_start>>
fadeVars == <<dst, src, prev, n_appended>>
voiceVars == <<archive, store, style_res>>
textVars == <<text, parts>>
bridgeVars ==
    <<stdin_input, stdin_payload, lang_voice, lang_code, espeak, phon>>
vars ==
    <<engineVars, chunkVars, fadeVars, voiceVars, textVars, bridgeVars, pc>>

---------------------------------------------------------------------------
(* Program constants.                                                      *)

MAX_PHONEME_LEN == 510
STYLE_DIM == 256
SAMPLE_RATE == 24000
CHUNK_CROSSFADE_SAMPLES == 240
PUNCT_IDS == {1, 2, 3, 4, 5, 6}

---------------------------------------------------------------------------
(* Bounds of the model.                                                    *)

\* split_chunks inputs are built from at most MaxBlocks blocks, a block
\* being a run of phoneme tokens closed or not by a punctuation token.
MaxBlocks == 3

\* The while loop of split_chunks is stepped through on inputs of at most
\* MaxLoopBlocks blocks.
MaxLoopBlocks == 2

\* append_with_crossfade is applied at most MaxAppends times in a row.
MaxAppends == 2

---------------------------------------------------------------------------
(* Helpers: Option, slices, min.                                           *)
(* Throughout the module a record constructor lists its fields in the      *)
(* order TLC keeps them in (the order in which the names first occur in    *)
(* the module), so that every record is built in its normal form and is    *)
(* never rearranged while several workers read it.                         *)

None == <<>>
Some(x) == <<x>>
IsSome(o) == Len(o) = 1
Unwrap(o) == o[1]

Min(a, b) == IF a <= b THEN a ELSE b
Max(a, b) == IF a >= b THEN a ELSE b

\* s[a..b] of the source: 0-based, half-open.
Slice(s, a, b) == SubSeq(s, a + 1, b)

Run(n, x) == [i \in 1..n |-> x]

\* F applied to e: the value of e, named.
With(e, F(_)) == F(e)

RECURSIVE Flatten(_)
Flatten(ss) == IF ss = <<>> THEN <<>> ELSE Head(ss) \o Flatten(Tail(ss))

---------------------------------------------------------------------------
(* Chunker: split_chunks (model.rs).                                       *)

\* let end = (start + MAX_PHONEME_LEN).min(ids.len())
window_end_off_by_one(tokens, start) ==
    Min(start + MAX_PHONEME_LEN + 1, Len(tokens))

window_end(tokens, start) == Min(start + MAX_PHONEME_LEN, Len(tokens))

\* A split at the last punctuation token of the window, not after it.
split_point_at_punctuation(tokens, start, end) ==
    LET hits == {i \in 0..(end - start - 1) :
                    tokens[start + i + 1] \in PUNCT_IDS}
    IN  IF hits = {} THEN end
        ELSE start + (CHOOSE i \in hits : \A j \in hits : j <= i)

\* A split after the first punctuation token of the window.
split_point_first(tokens, start, end) ==
    LET hits == {i \in 0..(end - start - 1) :
                    tokens[start + i + 1] \in PUNCT_IDS}
    IN  IF hits = {} THEN end
        ELSE start + (CHOOSE i \in hits : \A j \in hits : i <= j) + 1

\* ids[start..end].iter().enumerate().rev().find(punct).map(|i| start+i+1)
\*     .unwrap_or(end)
split_point(tokens, start, end) ==
    LET hits == {i \in 0..(end - start - 1) :
                    tokens[start + i + 1] \in PUNCT_IDS}
    IN  IF hits = {} THEN end
        ELSE start + (CHOOSE i \in hits : \A j \in hits : j <= i) + 1

RECURSIVE split_chunks_from(_, _, _)
split_chunks_from(tokens, start, acc) ==
    IF ~(start < Len(tokens)) THEN acc
    ELSE LET end == window_end(tokens, start) IN
         IF end = Len(tokens)
         THEN Append(acc, Slice(tokens, start, end))
         ELSE LET split == split_point(tokens, start, end) IN
              split_chunks_from(tokens, split,
                                Append(acc, Slice(tokens, start, split)))

split_chunks(tokens) == split_chunks_from(tokens, 0, <<>>)

\* The token sequences split_chunks is driven with: runs of a phoneme token
\* of lengths around the window size, each closed or not by a punctuation
\* token ('?' = 6) or by a token just outside the punctuation ids (7).
PhonemeToken == 43
RunLens == {0, 1, MAX_PHONEME_LEN - 1, MAX_PHONEME_LEN}
Terminators == {<<>>, <<6>>, <<7>>}
Blocks == {Run(n, PhonemeToken) \o t : n \in RunLens, t \in Terminators}

RECURSIVE BlockSeqs(_)
BlockSeqs(k) ==
    IF k = 0 THEN {<<>>}
    ELSE LET p == BlockSeqs(k - 1) IN p \cup {a \o b : a \in p, b \in Blocks}

TokenInputs == BlockSeqs(MaxBlocks)

---------------------------------------------------------------------------
(* Crossfade stitching: append_with_crossfade (model.rs).                  *)

\* A sample of chunk c at index i, as the inference run returned it.
RawSample(c, i) == <<c, i>>
Wave(c, n) == [i \in 1..n |-> RawSample(c, i)]

\* dst[k] * (1.0 - t) + src[i] * t with t = num / den, kept symbolic: the
\* f32 arithmetic is a function of the two samples and the ramp position.
Mix(left, right, num, den) == <<left, right, num, den>>

\* An overlap that is not limited by the accumulated buffer.
crossfade_overlap_ignoring_dst(d, s, crossfade_samples) ==
    Min(crossfade_samples, Len(s))

\* let overlap = crossfade_samples.min(dst.len()).min(src.len())
crossfade_overlap(d, s, crossfade_samples) ==
    Min(Min(crossfade_samples, Len(d)), Len(s))

\* dst.extend_from_slice(&src[overlap..])
crossfade_tail_whole(s, overlap) == s

crossfade_tail(s, overlap) == Slice(s, overlap, Len(s))

append_with_crossfade(d, s, crossfade_samples) ==
    LET overlap == crossfade_overlap(d, s, crossfade_samples) IN
    IF overlap = 0 THEN d \o s
    ELSE LET dst_start == Len(d) - overlap
             blended == [k \in 1..Len(d) |->
                            IF k > dst_start
                            THEN Mix(d[k], s[k - dst_start],
                                     k - dst_start, overlap + 1)
                            ELSE d[k]]
         IN  blended \o crossfade_tail(s, overlap)

\* The buffer lengths append_with_crossfade is driven with: empty, one
\* sample, and lengths around and above the crossfade length.
WaveLens ==
    {0, 1, CHUNK_CROSSFADE_SAMPLES - 1, CHUNK_CROSSFADE_SAMPLES,
     CHUNK_CROSSFADE_SAMPLES + 1, 2 * CHUNK_CROSSFADE_SAMPLES}

---------------------------------------------------------------------------
(* Results and errors (KokoroError, model.rs).                             *)

Ok(v) == [tag |-> "Ok", val |-> v]
Err(e) == [tag |-> "Err", val |-> e]
\* An index out of bounds: the thread panics and the call returns nothing.
Panic(why) == [tag |-> "Panic", val |-> why]
IsOk(r) == r.tag = "Ok"
IsErr(r) == r.tag = "Err"

KokoroError(kind, arg) == [kind |-> kind, arg |-> arg]
ErrKind(r) == IF r.tag = "Err" THEN r.val.kind ELSE ""

---------------------------------------------------------------------------
(* Voice store: parse_npy, VoiceStore::load, get_style (voices.rs).        *)

\* b"\x93NUMPY"
NPY_MAGIC == <<147, 78, 85, 77, 80, 89>>

\* f32::from_le_bytes([d[o], d[o+1], d[o+2], d[o+3]]): the float is its 32
\* bits, read as a two's complement integer, the first byte the least
\* significant.
f32_from_le_bytes(d, o) ==
    d[o + 1] + 256 * d[o + 2] + 65536 * d[o + 3]
        + 16777216 * (IF d[o + 4] < 128 THEN d[o + 4] ELSE d[o + 4] - 256)

\* u16::from_le_bytes([data[8], data[9]]) as usize
u16_from_le_bytes(lo, hi) == lo + 256 * hi

\* A float count test that accepts every count.
npy_float_count_ok_any(n_floats) == TRUE

\* if n_floats % 256 != 0 { return Err(..) }
npy_float_count_ok(n_floats) == n_floats % STYLE_DIM = 0

parse_npy(data, name) ==
    IF Len(data) < 10
    THEN Err(KokoroError("VoiceParse", <<name, "file too short">>))
    ELSE IF Slice(data, 0, 6) # NPY_MAGIC
    THEN Err(KokoroError("VoiceParse", <<name, "invalid numpy magic bytes">>))
    ELSE LET header_len == u16_from_le_bytes(data[9], data[10])
             data_offset == 10 + header_len
         IN
         IF Len(data) < data_offset
         THEN Err(KokoroError("VoiceParse", <<name, "header truncated">>))
         ELSE LET float_data == Slice(data, data_offset, Len(data)) IN
              IF Len(float_data) % 4 # 0
              THEN Err(KokoroError("VoiceParse",
                                   <<name, "not a multiple of 4">>))
              ELSE LET n_floats == Len(float_data) \div 4 IN
                   IF ~npy_float_count_ok(n_floats)
                   THEN Err(KokoroError("VoiceParse",
                                        <<name, "not a multiple of 256">>))
                   ELSE LET n_styles == n_floats \div STYLE_DIM IN
                        Ok([i \in 1..n_styles |->
                              [j \in 1..STYLE_DIM |->
                                 f32_from_le_bytes(
                                     float_data,
                                     ((i - 1) * STYLE_DIM + (j - 1)) * 4)]])

\* str::trim_end_matches(pat): drop every trailing repetition of pat.
RECURSIVE trim_end_matches(_, _)
trim_end_matches(s, pat) ==
    IF Len(s) >= Len(pat) /\ SubSeq(s, Len(s) - Len(pat) + 1, Len(s)) = pat
    THEN trim_end_matches(SubSeq(s, 1, Len(s) - Len(pat)), pat)
    ELSE s

ends_with(s, pat) ==
    Len(s) >= Len(pat) /\ SubSeq(s, Len(s) - Len(pat) + 1, Len(s)) = pat

\* The bytes of an archive entry.  An entry of the model is described by its
\* name, its kind, the header length it declares and its payload length:
\*   "npy"       magic, version, header length, header, payload
\*   "short"     fewer than 10 bytes
\*   "badmagic"  as "npy" with the first bytes of another format
\*   "truncated" declares a header longer than the bytes that follow
\*   "bad_index" the archive cannot open the entry (zip.by_index fails)
\*   "bad_read"  the entry cannot be decompressed (read_to_end fails)
PayloadByte(k) == (k * 7 + k \div 256) % 256

NpyBytes(e) ==
    LET ver == <<1, 0>>
        hl == <<e.header_len % 256, e.header_len \div 256>>
        header == Run(e.header_len, 32)
        payload == [k \in 1..e.payload_len |-> PayloadByte(k - 1)]
    IN  CASE e.kind = "npy" -> NPY_MAGIC \o ver \o hl \o header \o payload
          [] e.kind = "short" -> NPY_MAGIC \o ver
          [] e.kind = "badmagic" ->
                <<80, 75, 3, 4, 20, 0>> \o ver \o hl \o header \o payload
          [] e.kind = "truncated" ->
                NPY_MAGIC \o ver
                    \o <<(e.header_len + 1) % 256, (e.header_len + 1) \div 256>>
                    \o header
          [] OTHER -> <<>>

\* The for loop of VoiceStore::load over the entries i..len of the archive.
RECURSIVE load_entries(_, _, _)
load_entries(entries, i, voices) ==
    IF i > Len(entries) THEN Ok([voices |-> voices])
    ELSE LET e == entries[i] IN
    IF e.kind = "bad_index"
    THEN Err(KokoroError("VoiceParse", <<i - 1, "Failed to read zip entry">>))
    ELSE
    LET raw_name == e.name
        voice_name == trim_end_matches(trim_end_matches(raw_name, <<"/">>),
                                       <<".", "n", "p", "y">>)
    IN  IF voice_name = <<>> \/ ends_with(raw_name, <<"/">>)
        THEN load_entries(entries, i + 1, voices)
        ELSE IF e.kind = "bad_read"
        THEN Err(KokoroError("VoiceParse", <<raw_name, "Failed to read">>))
        ELSE LET parsed == parse_npy(NpyBytes(e), raw_name) IN
             IF ~IsOk(parsed) THEN parsed
             ELSE load_entries(entries, i + 1,
                      [v \in DOMAIN voices \cup {voice_name} |->
                          IF v = voice_name THEN parsed.val ELSE voices[v]])

\* A voice archive file: readable or not, a zip archive or not, its entries.
VoiceStore_load(file) ==
    IF ~file.readable
    THEN Err(KokoroError("Io", <<"PermissionDenied", "voices-v1.0.bin">>))
    ELSE IF ~file.zip_ok
    THEN Err(KokoroError("VoiceParse", <<"", "Failed to open zip archive">>))
    ELSE load_entries(file.entries, 1, <<>>)

\* usize::saturating_sub
saturating_sub(a, b) == IF a >= b THEN a - b ELSE 0

\* let clamped = idx.min(styles.len().saturating_sub(1))
clamp_style_idx(idx, len) == Min(idx, saturating_sub(len, 1))

get_style(st, voice, idx) ==
    IF voice \notin DOMAIN st.voices
    THEN Err(KokoroError("VoiceNotFound", voice))
    ELSE LET styles == st.voices[voice]
             clamped == clamp_style_idx(idx, Len(styles))
         IN  IF clamped < Len(styles)
             THEN Ok(styles[clamped + 1])
             ELSE Panic("index out of bounds")

\* The archives VoiceStore::load is driven with.
MaxRows == 2
MaxStyleIdx == 3

af_heart == <<"a", "f", "_", "h", "e", "a", "r", "t">>
bf_emma == <<"b", "f", "_", "e", "m", "m", "a">>
zz_none == <<"z", "z">>
dot_npy == <<".", "n", "p", "y">>

EntryNames ==
    {af_heart \o dot_npy, bf_emma, af_heart \o dot_npy \o dot_npy,
     <<"d", "/">>, dot_npy}
PayloadLens ==
    {r * 4 * STYLE_DIM : r \in 0..MaxRows}
        \cup {4, 4 * STYLE_DIM - 1, 4 * STYLE_DIM + 4}
NpyEntry(name, kind, header_len, payload_len) ==
    [kind |-> kind, name |-> name, header_len |-> header_len,
     payload_len |-> payload_len]
NpyEntries ==
    {NpyEntry(n, "npy", h, p) : n \in EntryNames, h \in {0, 300},
                                p \in PayloadLens}
BadEntries ==
    {NpyEntry(n, k, 0, 4 * STYLE_DIM) :
        n \in EntryNames,
        k \in {"short", "badmagic", "truncated", "bad_index", "bad_read"}}
FirstEntries ==
    {NpyEntry(af_heart \o dot_npy, "npy", 0, r * 4 * STYLE_DIM) : r \in {0, 1}}
ArchiveFile(readable, zip_ok, entries) ==
    [entries |-> entries, readable |-> readable, zip_ok |-> zip_ok]
VoiceArchives ==
    {ArchiveFile(FALSE, TRUE, <<>>), ArchiveFile(TRUE, FALSE, <<>>),
     ArchiveFile(TRUE, TRUE, <<>>)}
        \cup {ArchiveFile(TRUE, TRUE, <<e>>) : e \in NpyEntries \cup BadEntries}
        \cup {ArchiveFile(TRUE, TRUE, <<e1, e2>>) :
                e1 \in FirstEntries, e2 \in NpyEntries \cup BadEntries}
QueryVoices == {af_heart, bf_emma, zz_none}

---------------------------------------------------------------------------
(* Characters.  A character outside ASCII is written by its name:          *)
(* EM_DASH U+2014, ELLIPSIS U+2026, LDQUO U+201C, RDQUO U+201D, NBSP       *)
(* U+00A0, ARABIC_3 U+0663 (a digit that is not an ASCII digit), SCHWA     *)
(* U+0259, E_ACUTE U+00E9.                                                 *)

\* char::is_whitespace
is_whitespace(ch) == ch \in {" ", "\t", "\n", "\r", "NBSP"}

\* char::is_ascii_digit
is_ascii_digit(ch) ==
    ch \in {"0", "1", "2", "3", "4", "5", "6", "7", "8", "9"}

\* char::len_utf8
len_utf8(ch) ==
    CASE ch \in {"EM_DASH", "ELLIPSIS", "LDQUO", "RDQUO"} -> 3
      [] ch \in {"NBSP", "ARABIC_3", "SCHWA", "E_ACUTE"} -> 2
      [] OTHER -> 1

\* str::trim: the string without its leading and trailing whitespace.
RECURSIVE trim_start_at(_, _)
trim_start_at(s, i) ==
    IF i > Len(s) \/ ~is_whitespace(s[i]) THEN i ELSE trim_start_at(s, i + 1)

RECURSIVE trim_end_at(_, _)
trim_end_at(s, i) ==
    IF i < 1 \/ ~is_whitespace(s[i]) THEN i ELSE trim_end_at(s, i - 1)

trim(s) == SubSeq(s, trim_start_at(s, 1), trim_end_at(s, Len(s)))

---------------------------------------------------------------------------
(* Text segmenter: split_text_parts (phonemizer.rs).                       *)

TextPart(kind, s) == [s |-> s, kind |-> kind]
Text(s) == TextPart("Text", s)
Punct(ch) == TextPart("Punct", <<ch>>)

map_boundary_punctuation(ch) ==
    CASE ch \in {".", "!", "?", ",", ";", ":", "EM_DASH", "ELLIPSIS", "\"",
                 "(", ")", "LDQUO", "RDQUO"} -> Some(ch)
      [] ch \in {"\n", "\r"} -> Some(".")
      [] OTHER -> None

\* The character before position i of s and the one after it (i is 1-based;
\* the source slices the bytes before idx and after idx + ch_len).
prev_char(s, i) == IF i > 1 THEN Some(s[i - 1]) ELSE None
next_char(s, i) == IF i < Len(s) THEN Some(s[i + 1]) ELSE None

is_numeric_connector_either_side(s, i, ch) ==
    IF ch \notin {".", ","} THEN FALSE
    ELSE LET p == prev_char(s, i)
             n == next_char(s, i)
         IN  /\ IsSome(p) /\ IsSome(n)
             /\ (is_ascii_digit(Unwrap(p)) \/ is_ascii_digit(Unwrap(n)))

is_numeric_connector_between_digits(s, i, ch) ==
    IF ch \notin {".", ","} THEN FALSE
    ELSE LET p == prev_char(s, i)
             n == next_char(s, i)
         IN  /\ IsSome(p) /\ IsSome(n)
             /\ is_ascii_digit(Unwrap(p)) /\ is_ascii_digit(Unwrap(n))

\* flush_text_part without its trim and its emptiness test.
flush_text_part_untrimmed(ps, current) == Append(ps, Text(current))

flush_text_part(ps, current) ==
    LET trimmed == trim(current) IN
    IF trimmed = <<>> THEN ps ELSE Append(ps, Text(trimmed))

\* The for loop of split_text_parts from character i on, then the last flush.
RECURSIVE split_text_loop(_, _, _, _)
split_text_loop(s, i, ps, current) ==
    IF i > Len(s) THEN flush_text_part(ps, current)
    ELSE LET ch == s[i]
             punct == map_boundary_punctuation(ch)
         IN
         IF IsSome(punct) /\ ~is_numeric_connector_between_digits(s, i, ch)
         THEN split_text_loop(s, i + 1,
                  Append(flush_text_part(ps, current), Punct(Unwrap(punct))),
                  <<>>)
         ELSE IF is_whitespace(ch)
         THEN split_text_loop(s, i + 1, ps,
                  IF current # <<>> /\ ~ends_with(current, <<" ">>)
                  THEN Append(current, " ") ELSE current)
         ELSE split_text_loop(s, i + 1, ps, Append(current, ch))

split_text_parts(s) == split_text_loop(s, 1, <<>>, <<>>)

\* The texts split_text_parts is driven with: every string of at most
\* MaxTextLen characters of TextAlphabet.
MaxTextLen == 4
TextAlphabet == {"a", "1", ".", ",", " ", "\t", "\n", "!", "ARABIC_3"}

RECURSIVE Strings(_, _)
Strings(alphabet, n) ==
    IF n = 0 THEN {<<>>}
    ELSE LET p == Strings(alphabet, n - 1)
         IN  p \cup {Append(s, c) : s \in p, c \in alphabet}

---------------------------------------------------------------------------
(* Vocabulary (vocab.rs), restricted to the characters of the model.       *)

hardcoded_vocab ==
    [c \in {";", ":", ",", ".", "!", "?", "EM_DASH", "ELLIPSIS", "\"", "(",
            ")", "LDQUO", "RDQUO", " ", "a", "b", "c", "SCHWA"} |->
        CASE c = ";" -> 1   [] c = ":" -> 2   [] c = "," -> 3
          [] c = "." -> 4   [] c = "!" -> 5   [] c = "?" -> 6
          [] c = "EM_DASH" -> 9   [] c = "ELLIPSIS" -> 10
          [] c = "\"" -> 11  [] c = "(" -> 12  [] c = ")" -> 13
          [] c = "LDQUO" -> 14    [] c = "RDQUO" -> 15
          [] c = " " -> 16   [] c = "a" -> 43  [] c = "b" -> 44
          [] c = "c" -> 45   [] c = "SCHWA" -> 83]

\* A config.json whose "vocab" object maps the phonemes only: no
\* punctuation character has a token.
phoneme_only_vocab ==
    [c \in {"a", "b", "c", "SCHWA"} |->
        CASE c = "a" -> 43 [] c = "b" -> 44 [] c = "c" -> 45
          [] c = "SCHWA" -> 83]

---------------------------------------------------------------------------
(* Phonemizer bridge (phonemizer.rs).                                      *)

\* &voice[..voice.len().min(2)]: the slice of the first min(len, 2) BYTES,
\* which panics when byte 2 is inside a character.
byte_len(s) == IF s = <<>> THEN 0
               ELSE LET f[i \in 0..Len(s)] ==
                            IF i = 0 THEN 0 ELSE f[i - 1] + len_utf8(s[i])
                    IN  f[Len(s)]

byte_prefix(s, n) ==
    LET f[i \in 0..Len(s)] == IF i = 0 THEN 0 ELSE f[i - 1] + len_utf8(s[i])
        cuts == {i \in 0..Len(s) : f[i] = n}
    IN  IF cuts = {} THEN Panic("byte index is not a char boundary")
        ELSE Ok(SubSeq(s, 1, CHOOSE i \in cuts : TRUE))

voice_lang(voice) ==
    LET prefix == byte_prefix(voice, Min(byte_len(voice), 2)) IN
    IF ~IsOk(prefix) THEN prefix
    ELSE LET p == prefix.val IN
         Ok(CASE p \in {<<"a", "f">>, <<"a", "m">>} -> "en-us"
              [] p \in {<<"b", "f">>, <<"b", "m">>} -> "en-gb"
              [] p \in {<<"e", "f">>, <<"e", "m">>} -> "es"
              [] p = <<"f", "f">> -> "fr"
              [] p \in {<<"h", "f">>, <<"h", "m">>} -> "hi"
              [] p \in {<<"i", "f">>, <<"i", "m">>} -> "it"
              [] p \in {<<"j", "f">>, <<"j", "m">>} -> "ja"
              [] p \in {<<"p", "f">>, <<"p", "m">>} -> "pt-br"
              [] p \in {<<"z", "f">>, <<"z", "m">>} -> "cmn"
              [] OTHER -> "en-us")

\* str::lines: the lines of s, a line ending being "\n" or "\r\n"; the last
\* line needs no line ending.
Lines(s) ==
    LET nl == {i \in 1..Len(s) : s[i] = "\n"}
        n == Cardinality(nl)
        nth(k) == CHOOSE i \in nl : Cardinality({j \in nl : j <= i}) = k
        start(k) == IF k = 1 THEN 1 ELSE nth(k - 1) + 1
        strip_cr(l) == IF ends_with(l, <<"\r">>) THEN SubSeq(l, 1, Len(l) - 1)
                       ELSE l
        full == [k \in 1..n |-> strip_cr(SubSeq(s, start(k), nth(k) - 1))]
        rest == IF n = 0 THEN s ELSE SubSeq(s, nth(n) + 1, Len(s))
    IN  IF rest = <<>> THEN full ELSE Append(full, rest)

\* [&str]::join("\n")
RECURSIVE join_lines(_)
join_lines(segs) ==
    IF segs = <<>> THEN <<>>
    ELSE IF Len(segs) = 1 THEN segs[1]
    ELSE segs[1] \o <<"\n">> \o join_lines(Tail(segs))

\* A payload built by appending a newline whatever the input ends in.
canonicalize_always_append(input) == input \o <<"\n">>

canonicalize_espeak_stdin_payload(input) ==
    IF ends_with(input, <<"\n">>) THEN input ELSE input \o <<"\n">>

\* The tokens of one line of ipa_to_ids: the tie marker '_' and the
\* characters the vocabulary does not map are dropped.
line_to_ids(line, vocab) ==
    LET kept == SelectSeq(trim(line),
                          LAMBDA ch : ch # "_" /\ ch \in DOMAIN vocab)
    IN  [k \in 1..Len(kept) |-> vocab[kept[k]]]

ipa_to_ids(ipa, vocab) ==
    LET ls == Lines(ipa) IN
    Flatten([k \in 1..Len(ls) |-> line_to_ids(ls[k], vocab)])

\* espeak-ng, an oracle.  Invocation fail_at of a call (0: none) fails with
\* fail_kind; another one prints, for each line of its input, line_len times
\* the phoneme of the line's first character, between a tie marker and a
\* character outside every vocabulary.  mode says how the lines come out:
\* "perline" one per input line, "merged" all on one line, "split" each on
\* two lines.
ipa_of(line) ==
    IF line # <<>> /\ line[1] \in {"a", "b", "c"} THEN line[1] ELSE "SCHWA"

ipa_line(esp, line) == <<"_">> \o Run(esp.line_len, ipa_of(line)) \o <<"^">>

espeak_stdout(esp, payload) ==
    LET ls == Lines(payload)
        outs == [k \in 1..Len(ls) |-> ipa_line(esp, ls[k])]
    IN  CASE esp.mode = "perline" ->
                Flatten([k \in 1..Len(outs) |-> outs[k] \o <<"\n">>])
          [] esp.mode = "merged" ->
                Flatten([k \in 1..Len(outs) |-> outs[k] \o <<" ">>]) \o <<"\n">>
          [] OTHER ->
                Flatten([k \in 1..Len(outs) |->
                            <<" ">> \o outs[k] \o <<"\r", "\n">> \o outs[k]
                                \o <<"\n">>])

\* run_espeak as invocation n of the call: what was written to the child's
\* stdin and what came back.
run_espeak(esp, n, input, lang) ==
    IF esp.fail_at = n
    THEN [payload |-> IF esp.fail_kind = "EspeakNotFound" THEN <<>>
                      ELSE canonicalize_espeak_stdin_payload(input),
          lang |-> lang,
          res |-> Err(KokoroError(esp.fail_kind, <<"Other", "espeak-ng">>))]
    ELSE LET payload == canonicalize_espeak_stdin_payload(input) IN
         [payload |-> payload, lang |-> lang,
          res |-> Ok(espeak_stdout(esp, payload))]

\* What is kept of an invocation: its stdin, its language, whether it
\* succeeded.
Invocation(run) ==
    [payload |-> run.payload, lang |-> run.lang, ok |-> IsOk(run.res)]

\* A failed invocation followed by a second invocation on the same input.
retry_after_failure(run, calls) ==
    [res |-> run.res,
     calls |-> calls \o <<Invocation(run), Invocation(run)>>]

\* run_espeak(..)?: a failed invocation ends the call with its error.
stop_at_failure(run, calls) ==
    [res |-> run.res, calls |-> Append(calls, Invocation(run))]

\* The per-segment fallback of phonemize_segments_batch: segments k.. of
\* the list, one invocation each, stopping at the first that fails.
RECURSIVE phonemize_each(_, _, _, _, _, _, _)
phonemize_each(esp, segments, lang, vocab, k, frags, calls) ==
    IF k > Len(segments) THEN [res |-> Ok(frags), calls |-> calls]
    ELSE With(run_espeak(esp, Len(calls) + 1, segments[k], lang), LAMBDA run :
         IF ~IsOk(run.res) THEN stop_at_failure(run, calls)
         ELSE phonemize_each(esp, segments, lang, vocab, k + 1,
                             Append(frags, ipa_to_ids(run.res.val, vocab)),
                             Append(calls, Invocation(run))))

\* A line count test that never falls back.
batch_lines_match_always(lines, segments) == TRUE

\* if lines.len() != segments.len() { fall back }
batch_lines_match(lines, segments) == Len(lines) = Len(segments)

phonemize_segments_batch(esp, segments, lang, vocab) ==
    With(run_espeak(esp, 1, join_lines(segments), lang), LAMBDA run :
    IF ~IsOk(run.res) THEN stop_at_failure(run, <<>>)
    ELSE LET lines == Lines(run.res.val) IN
         IF ~batch_lines_match(lines, segments)
         THEN phonemize_each(esp, segments, lang, vocab, 1, <<>>,
                             <<Invocation(run)>>)
         ELSE [res |-> Ok([k \in 1..Len(lines) |->
                              ipa_to_ids(lines[k], vocab)]),
               calls |-> <<Invocation(run)>>])

\* An assembly that puts every fragment before the punctuation tokens.
assemble_ids_fragments_first(ps, segment_ids, vocab, k, idx, acc) ==
    LET puncts == SelectSeq(ps, LAMBDA p : p.kind = "Punct"
                                              /\ p.s[1] \in DOMAIN vocab)
    IN  Flatten(segment_ids)
            \o [i \in 1..Len(puncts) |-> vocab[puncts[i].s[1]]]

\* The assembly loop of phonemize over the parts from part k on.
RECURSIVE assemble_ids(_, _, _, _, _, _)
assemble_ids(ps, segment_ids, vocab, k, segment_index, acc) ==
    IF k > Len(ps) THEN acc
    ELSE IF ps[k].kind = "Text"
    THEN assemble_ids(ps, segment_ids, vocab, k + 1, segment_index + 1,
             IF segment_index < Len(segment_ids)
             THEN acc \o segment_ids[segment_index + 1] ELSE acc)
    ELSE assemble_ids(ps, segment_ids, vocab, k + 1, segment_index,
             IF ps[k].s[1] \in DOMAIN vocab
             THEN Append(acc, vocab[ps[k].s[1]]) ELSE acc)

\* phonemize: its result and the espeak-ng invocations it made.
phonemize(esp, s, lang, vocab) ==
    LET ps == split_text_parts(s) IN
    IF ps = <<>> THEN [res |-> Ok(<<>>), calls |-> <<>>]
    ELSE LET segs == SelectSeq(ps, LAMBDA p : p.kind = "Text")
             text_segments == [k \in 1..Len(segs) |-> segs[k].s]
         IN  With(IF text_segments = <<>>
                  THEN [res |-> Ok(<<>>), calls |-> <<>>]
                  ELSE phonemize_segments_batch(esp, text_segments, lang,
                                                vocab),
                  LAMBDA batch :
                    IF ~IsOk(batch.res) THEN batch
                    ELSE [res |-> Ok(assemble_ids(ps, batch.res.val, vocab,
                                                  1, 0, <<>>)),
                          calls |-> batch.calls])

---------------------------------------------------------------------------
(* Model loading: find_onnx_file, init_session, KokoroModel::load          *)
(* (model.rs).  A model directory is described by what the load looks at:  *)
(* whether the directory can be listed, whether it holds the preferred     *)
(* graph file or another .onnx file, whether the graph it holds is one the *)
(* runtime accepts, its voice archive if any, and its config.json          *)
(* ("missing", "invalid" or the vocabulary it gives).                      *)

find_onnx_file(dir) ==
    IF dir.preferred THEN Ok("kokoro-quant-convinteger.onnx")
    ELSE IF ~dir.readable
    THEN Err(KokoroError("Io", <<"NotFound", "read_dir">>))
    ELSE IF dir.other_onnx THEN Ok("other.onnx")
    ELSE Err(KokoroError("Io", <<"NotFound", "No .onnx file found">>))

\* A decision that never reads the cache file.
cache_decision_never_cached(optimized_cache_path, cache_present) ==
    [load_path |-> "onnx", opt_level |-> "Level3",
     write_cache |-> IsSome(optimized_cache_path)]

\* The (load_path, opt_level, write_cache) match of init_session.
cache_decision(optimized_cache_path, cache_present) ==
    CASE IsSome(optimized_cache_path) /\ cache_present ->
            [load_path |-> "cache", opt_level |-> "Disable",
             write_cache |-> FALSE]
      [] IsSome(optimized_cache_path) /\ ~cache_present ->
            [load_path |-> "onnx", opt_level |-> "Level3",
             write_cache |-> TRUE]
      [] OTHER ->
            [load_path |-> "onnx", opt_level |-> "Level3",
             write_cache |-> FALSE]

\* init_session: the session or the runtime's error, the decision taken and
\* whether the optimized graph was written to the cache path.  The graph of
\* the cache file is one the runtime wrote, so it loads.
init_session(dir, num_threads, optimized_cache_path, cache_present) ==
    LET d == cache_decision(optimized_cache_path, cache_present)
        commits == d.load_path = "cache" \/ dir.graph_ok
    IN  [res |-> IF commits
                 THEN Ok([inputs |-> <<"input_ids", "style", "speed">>,
                          speed_dtype |-> "Int32"])
                 ELSE Err(KokoroError("Ort", "commit_from_file")),
         num_threads |-> num_threads, decision |-> d,
         cache_written |-> commits /\ d.write_cache]

detect_tokens_input(session) ==
    LET hits == {i \in 1..Len(session.inputs) :
                    session.inputs[i] \in {"input_ids", "tokens"}}
    IN  IF hits = {} THEN "input_ids"
        ELSE session.inputs[CHOOSE i \in hits : \A j \in hits : i <= j]

detect_speed_type(session) ==
    IF \E i \in 1..Len(session.inputs) : session.inputs[i] = "speed"
    THEN session.speed_dtype \in {"Int32", "int32"}
    ELSE TRUE

\* super::vocab::load_vocab on the directory's config.json.
load_vocab(config) ==
    IF config = "invalid"
    THEN Err(KokoroError("Config", "Failed to parse JSON"))
    ELSE Ok(phoneme_only_vocab)

KokoroModel(session, voice_store, vocab) ==
    [vocab |-> vocab, session |-> session, voice_store |-> voice_store,
     tokens_input_name |-> detect_tokens_input(session),
     speed_is_int32 |-> detect_speed_type(session)]

\* !voices_path.exists()
voices_missing(dir) == dir.voices = None

\* KokoroModel::load: its result, and what init_session decided and wrote
\* (None when the load failed before it).
KokoroModel_load(dir, num_threads, optimized_cache_path, cache_present) ==
    LET onnx_path == find_onnx_file(dir) IN
    IF ~IsOk(onnx_path)
    THEN [res |-> onnx_path, session |-> None]
    ELSE
    LET s == init_session(dir, num_threads, optimized_cache_path,
                          cache_present)
    IN
    IF ~IsOk(s.res) THEN [res |-> s.res, session |-> Some(s)]
    ELSE IF voices_missing(dir)
    THEN [res |-> Err(KokoroError("Io", <<"NotFound", "Voice file not found">>)),
          session |-> Some(s)]
    ELSE
    LET voice_store == IF dir.voices = None
                       THEN Err(KokoroError("Io", <<"NotFound", "open">>))
                       ELSE VoiceStore_load(Unwrap(dir.voices))
    IN
    IF ~IsOk(voice_store) THEN [res |-> voice_store, session |-> Some(s)]
    ELSE
    LET vocab == IF dir.config # "missing" THEN load_vocab(dir.config)
                 ELSE Ok(hardcoded_vocab)
    IN
    IF ~IsOk(vocab) THEN [res |-> vocab, session |-> Some(s)]
    ELSE [res |-> Ok(KokoroModel(s.res.val, voice_store.val, vocab.val)),
          session |-> Some(s)]

---------------------------------------------------------------------------
(* Synthesis: synthesize_chunk, synthesize_text (model.rs).                *)
(* A speed is written in tenths (10 is 1.0).  The ONNX runtime is an       *)
(* oracle: run fail_at of a call (0: none) fails with fail_kind ("run":    *)
(* the run fails, "no_output": it returns no output tensor); another run   *)
(* returns a waveform of len samples.                                      *)

\* speed as i32: the integer part
speed_as_i32(speed) == speed \div 10

\* synthesize_chunk as run k of the call: the tensors given and the result.
synthesize_chunk(m, tokens, style, speed, inf, k) ==
    LET seq_len == Len(tokens) + 2
        padded == [i \in 1..seq_len |->
                      IF i = 1 \/ i = seq_len THEN 0 ELSE tokens[i - 1]]
        speed_arr == IF m.speed_is_int32 THEN <<"i32", speed_as_i32(speed)>>
                     ELSE <<"f32", speed>>
    IN  [tokens |-> padded,
         res |-> IF inf.fail_at = k
                 THEN Err(KokoroError("Ort", inf.fail_kind))
                 ELSE Ok(Wave(k, inf.len)),
         speed |-> speed_arr, style |-> style,
         tokens_input |-> m.tokens_input_name]

\* let style_idx = style_idx_override.unwrap_or(ids.len())
style_index(style_idx_override, tokens) ==
    IF IsSome(style_idx_override) THEN Unwrap(style_idx_override)
    ELSE Len(tokens)

\* The index get_style is given for a chunk: style_idx, whatever the chunk.
chunk_style_index_by_len(style_idx, chunk_ids) == Len(chunk_ids)

chunk_style_index(style_idx, chunk_ids) == style_idx

\* The body of the for loop of synthesize_text after the inference run.
stitch(combined, audio) ==
    IF audio = <<>> THEN combined
    ELSE IF combined = <<>> THEN audio
    ELSE append_with_crossfade(combined, audio, CHUNK_CROSSFADE_SAMPLES)

\* let audio = self.synthesize_chunk(..)?: a failed run ends the call.
chunk_failure_skipped(run) == FALSE

chunk_failure(run) == ~IsOk(run.res)

\* The for loop of synthesize_text from chunk k on: the result and the
\* inference runs made, each with the style index looked up for it, the
\* length of its token tensor and its speed.
RECURSIVE synthesize_chunks(_, _, _, _, _, _, _, _)
synthesize_chunks(m, cs, voice_name, speed, style_idx, inf, combined, log) ==
    LET k == Len(log) + 1 IN
    IF k > Len(cs) THEN [res |-> Ok(combined), infer_log |-> log]
    ELSE
    LET idx == chunk_style_index(style_idx, cs[k])
        style == get_style(m.voice_store, voice_name, idx)
    IN
    IF ~IsOk(style) THEN [res |-> style, infer_log |-> log]
    ELSE
    With(synthesize_chunk(m, cs[k], style.val, speed, inf, k), LAMBDA run :
    LET entry == [ok |-> IsOk(run.res), speed |-> run.speed,
                  seq_len |-> Len(run.tokens), style_idx |-> idx, chunk |-> k]
    IN
    IF chunk_failure(run)
    THEN [res |-> run.res, infer_log |-> Append(log, entry)]
    ELSE synthesize_chunks(m, cs, voice_name, speed, style_idx, inf,
                           stitch(combined,
                                  IF IsOk(run.res) THEN run.res.val ELSE <<>>),
                           Append(log, entry)))

\* if ids.len() > MAX_PHONEME_LEN { split_chunks(&ids) } else { vec![ids] }
chunks_of(tokens) ==
    IF Len(tokens) > MAX_PHONEME_LEN THEN split_chunks(tokens) ELSE <<tokens>>

\* if ids.is_empty() { return Ok(vec![]) }
no_tokens_never(tokens) == FALSE

no_tokens(tokens) == tokens = <<>>

\* A first part that looks the voice up before it phonemizes the text.
text_to_chunks_voice_first(m, s, voice_name, esp) ==
    LET lang == voice_lang(voice_name)
        style == get_style(m.voice_store, voice_name, 0)
    IN
    IF ~IsOk(style)
    THEN [chunks |-> <<>>, tokens |-> None, res |-> Some(style),
          calls |-> <<>>]
    ELSE IF ~IsOk(lang)
    THEN [chunks |-> <<>>, tokens |-> None, res |-> Some(lang), calls |-> <<>>]
    ELSE
    With(phonemize(esp, s, lang.val, m.vocab), LAMBDA ph :
    IF ~IsOk(ph.res)
    THEN [chunks |-> <<>>, tokens |-> None, res |-> Some(ph.res),
          calls |-> ph.calls]
    ELSE IF no_tokens(ph.res.val)
    THEN [chunks |-> <<>>, tokens |-> Some(ph.res.val), res |-> Some(Ok(<<>>)),
          calls |-> ph.calls]
    ELSE [chunks |-> chunks_of(ph.res.val), tokens |-> Some(ph.res.val),
          res |-> None, calls |-> ph.calls])

\* The first part of synthesize_text, up to the chunks: the result if the
\* call ends there (None if it goes on), the espeak-ng invocations made, the
\* tokens phonemize returned (None when it did not) and the chunks.
text_to_chunks(m, s, voice_name, esp) ==
    LET lang == voice_lang(voice_name) IN
    IF ~IsOk(lang)
    THEN [chunks |-> <<>>, tokens |-> None, res |-> Some(lang), calls |-> <<>>]
    ELSE
    With(phonemize(esp, s, lang.val, m.vocab), LAMBDA ph :
    IF ~IsOk(ph.res)
    THEN [chunks |-> <<>>, tokens |-> None, res |-> Some(ph.res),
          calls |-> ph.calls]
    ELSE IF no_tokens(ph.res.val)
    THEN [chunks |-> <<>>, tokens |-> Some(ph.res.val), res |-> Some(Ok(<<>>)),
          calls |-> ph.calls]
    ELSE [chunks |-> chunks_of(ph.res.val), tokens |-> Some(ph.res.val),
          res |-> None, calls |-> ph.calls])

\* synthesize_text, given its first part: the result, the espeak-ng
\* invocations, the tokens and the inference runs made.
synthesize_text(m, prep, voice_name, speed, style_idx_override, inf) ==
    IF IsSome(prep.res)
    THEN [tokens |-> prep.tokens, res |-> Unwrap(prep.res),
          calls |-> prep.calls, infer_log |-> <<>>]
    ELSE
    LET style_idx == style_index(style_idx_override, Unwrap(prep.tokens))
        out == synthesize_chunks(m, prep.chunks, voice_name, speed, style_idx,
                                 inf, <<>>, <<>>)
    IN  [tokens |-> prep.tokens, res |-> out.res, calls |-> prep.calls,
         infer_log |-> out.infer_log]

---------------------------------------------------------------------------
(* The engine (engine.rs, lib.rs).                                         *)

\* VoiceStore::list_voices: the names, sorted.  Names are compared by their
\* characters' code points.
Letters == <<"a", "b", "c", "d", "e", "f", "g", "h", "i", "j", "k", "l", "m",
             "n", "o", "p", "q", "r", "s", "t", "u", "v", "w", "x", "y", "z">>
code_point(c) ==
    CASE c = "." -> 46 [] c = "/" -> 47 [] c = "_" -> 95
      [] c \in {Letters[i] : i \in 1..26} ->
            96 + CHOOSE i \in 1..26 : Letters[i] = c
      [] OTHER -> 128

RECURSIVE str_less(_, _)
str_less(a, b) ==
    IF b = <<>> THEN FALSE
    ELSE IF a = <<>> THEN TRUE
    ELSE IF code_point(Head(a)) # code_point(Head(b))
    THEN code_point(Head(a)) < code_point(Head(b))
    ELSE str_less(Tail(a), Tail(b))

RECURSIVE sorted_names(_)
sorted_names(names) ==
    IF names = {} THEN <<>>
    ELSE LET first == CHOOSE n \in names :
                         \A o \in names \ {n} : str_less(n, o)
         IN  <<first>> \o sorted_names(names \ {first})

list_voices(st) == sorted_names(DOMAIN st.voices)

\* KokoroEngine::list_voices
engine_list_voices(md) ==
    IF IsSome(md) THEN list_voices(Unwrap(md).voice_store) ELSE <<>>

\* KokoroInferenceParams::default()
default_inference_params ==
    [voice |-> af_heart, speed |-> 10, style_index |-> None]

\* KokoroModelParams::default()
default_model_params ==
    [num_threads |-> None, optimized_model_cache_path |-> None]

\* let model = KokoroModel::load(..)?; self.model = Some(model);
model_after_load_cleared(md, res) ==
    IF IsOk(res) THEN Some(res.val) ELSE None

model_after_load(md, res) == IF IsOk(res) THEN Some(res.val) ELSE md

\* A load that records the path it was given before it knows the outcome.
model_path_after_load_eager(mp, path, res) == Some(path)

\* self.model_path = Some(model_path.to_path_buf()), after the ? of the load
model_path_after_load(mp, path, res) == IF IsOk(res) THEN Some(path) ELSE mp

\* let model = self.model.as_mut().ok_or(KokoroError::ModelNotLoaded)?
model_not_loaded(md) == md = None

\* unload_model: self.model = None
model_after_unload_kept(md) == md

model_after_unload(md) == None

\* A failed synthesize_text: the error is returned, self.model is as it was.
model_after_synthesize_dropped(md, res) == IF IsOk(res) THEN md ELSE None

model_after_synthesize(md, res) == md

\* What is kept of an engine call: the operation, its arguments, its
\* result, whether the engine held a model before it, and what it did
\* meanwhile: the espeak-ng invocations, the number of tokens phonemize
\* returned (None when it returned none), the inference runs and the
\* session initialisation.
CallRecord(op, args, res, was_loaded, calls, n_tokens, infer_log, session) ==
    [res |-> res, calls |-> calls, session |-> session,
     infer_log |-> infer_log, op |-> op, args |-> args,
     was_loaded |-> was_loaded, n_tokens |-> n_tokens]

\* The model directories, load parameters, texts, synthesis parameters and
\* oracles the engine is driven with.
ModelDir(path, readable, preferred, other_onnx, graph_ok, voices, config) ==
    [voices |-> voices, readable |-> readable, preferred |-> preferred,
     other_onnx |-> other_onnx, graph_ok |-> graph_ok, config |-> config,
     path |-> path]

VoicesTwo ==
    ArchiveFile(TRUE, TRUE,
        <<NpyEntry(af_heart \o dot_npy, "npy", 0, 4 * STYLE_DIM),
          NpyEntry(bf_emma \o dot_npy, "npy", 0, 0)>>)
VoicesOne ==
    ArchiveFile(TRUE, TRUE,
        <<NpyEntry(af_heart \o dot_npy, "npy", 300, 4 * STYLE_DIM)>>)
VoicesBad ==
    ArchiveFile(TRUE, TRUE,
        <<NpyEntry(af_heart \o dot_npy, "badmagic", 0, 4 * STYLE_DIM)>>)

ModelDirs ==
    {ModelDir("kokoro", TRUE, TRUE, FALSE, TRUE, Some(VoicesTwo), "missing"),
     ModelDir("kokoro-cfg", TRUE, FALSE, TRUE, TRUE, Some(VoicesOne), "vocab"),
     ModelDir("empty", TRUE, FALSE, FALSE, TRUE, Some(VoicesOne), "missing"),
     ModelDir("absent", FALSE, FALSE, FALSE, FALSE, None, "missing"),
     ModelDir("bad-graph", TRUE, TRUE, FALSE, FALSE, Some(VoicesOne), "missing"),
     ModelDir("no-voices", TRUE, TRUE, FALSE, TRUE, None, "missing"),
     ModelDir("no-voices-bad-graph", TRUE, TRUE, FALSE, FALSE, None, "missing"),
     ModelDir("bad-voices", TRUE, TRUE, FALSE, TRUE, Some(VoicesBad), "missing"),
     ModelDir("bad-config", TRUE, TRUE, FALSE, TRUE, Some(VoicesOne), "invalid")}

ModelParams ==
    {default_model_params,
     [num_threads |-> Some(4), optimized_model_cache_path |-> Some("graph.ort")]}

EngineTexts ==
    {<<>>, <<" ", "\t">>, <<"\n">>, <<"a">>, <<"a", ",", " ", "b", ".", "c">>}

SynthesisParams ==
    {None,
     Some([voice |-> af_heart, speed |-> 9, style_index |-> Some(0)]),
     Some([voice |-> bf_emma, speed |-> 10, style_index |-> None]),
     Some([voice |-> zz_none, speed |-> 10, style_index |-> None])}

Espeak(fail_at, fail_kind, mode, line_len) ==
    [line_len |-> line_len, mode |-> mode, fail_at |-> fail_at,
     fail_kind |-> fail_kind]

\* The oracles of a call on text s: one when s has no Text part (espeak-ng
\* is not invoked).
EspeakOracles(s) ==
    IF \A k \in 1..Len(split_text_parts(s)) :
          split_text_parts(s)[k].kind # "Text"
    THEN {Espeak(0, "", "perline", 0)}
    ELSE {Espeak(0, "", "perline", n) : n \in {0, 1, MAX_PHONEME_LEN \div 2}}
            \cup {Espeak(0, "", m, 1) : m \in {"merged", "split"}}
            \cup {Espeak(1, k, "perline", 1) :
                     k \in {"EspeakNotFound", "PhonemizerFailed", "Io"}}
            \cup {Espeak(2, "PhonemizerFailed", "split", 1)}

AudioLen == CHUNK_CROSSFADE_SAMPLES + 10

Infer(fail_at, fail_kind, len) ==
    [len |-> len, fail_at |-> fail_at, fail_kind |-> fail_kind]

\* The oracles of a call that can make n inference runs.
InferOracles(n) ==
    IF n = 0 THEN {Infer(0, "", 0)}
    ELSE {Infer(0, "", l) : l \in {0, AudioLen}}
            \cup {Infer(f, "run", AudioLen) : f \in 1..n}
            \cup {Infer(1, "no_output", AudioLen)}

\* The number of inference runs a call can make: none when it ends before
\* the chunks or when the voice has no style vector to give.
RunsPossible(m, prep, voice_name) ==
    IF IsSome(prep.res) THEN 0
    ELSE IF ~IsOk(get_style(m.voice_store, voice_name, 0)) THEN 0
    ELSE Len(prep.chunks)

---------------------------------------------------------------------------
(* Idle values of the variables a specification does not use.              *)

EngineIdle ==
    /\ model = None
    /\ model_path = None
    /\ cache_exists = FALSE
    /\ last = CallRecord("new", <<>>, Ok(<<>>), FALSE, <<>>, None, <<>>, None)

ChunkIdle == ids = <<>> /\ chunks = <<>> /\ split_start = 0
FadeIdle == dst = <<>> /\ src = <<>> /\ prev = <<>> /\ n_appended = 0
VoiceIdle == archive = <<>> /\ store = None /\ style_res = None
TextIdle == text = <<>> /\ parts = <<>>
BridgeIdle ==
    /\ stdin_input = <<>> /\ stdin_payload = None
    /\ lang_voice = <<>> /\ lang_code = None
    /\ espeak = None /\ phon = None

---------------------------------------------------------------------------
(* SpecChunks: split_chunks applied to every input of TokenInputs.         *)

InitChunks ==
    /\ ids \in TokenInputs
    /\ chunks = <<>>
    /\ split_start = 0
    /\ pc = "call"
    /\ EngineIdle /\ FadeIdle /\ VoiceIdle /\ TextIdle /\ BridgeIdle

SplitChunks ==
    /\ pc = "call"
    /\ chunks' = split_chunks(ids)
    /\ pc' = "done"
    /\ UNCHANGED <<ids, split_start, engineVars, fadeVars, voiceVars,
                   textVars, bridgeVars>>

NextChunks == SplitChunks

SpecChunks == InitChunks /\ [][NextChunks]_vars

\* C1: the chunks split_chunks returns, concatenated in order, are the input
\* sequence, and no chunk is longer than MAX_PHONEME_LEN (510) tokens.
C1_ChunksReassemble ==
    pc = "done" =>
        /\ Flatten(chunks) = ids
        /\ \A k \in 1..Len(chunks) : Len(chunks[k]) <= MAX_PHONEME_LEN

\* An input longer than the limit was split into three chunks or more.
C1_Witness ==
    /\ pc = "done"
    /\ Len(ids) > MAX_PHONEME_LEN
    /\ Len(chunks) >= 3

\* The number of tokens of the input that lie before chunk k + 1.
RECURSIVE TokensIn(_)
TokensIn(k) == IF k = 0 THEN 0 ELSE TokensIn(k - 1) + Len(chunks[k])

TokensBefore(k) == TokensIn(k - 1)

\* The tokens of the input from the start of chunk k on, at most
\* MAX_PHONEME_LEN of them.
WindowOf(k) ==
    SubSeq(ids, TokensBefore(k) + 1,
           Min(TokensBefore(k) + MAX_PHONEME_LEN, Len(ids)))

\* C17: every chunk but the last is cut from a window of 510 tokens that
\* does not reach the end of the input: when the window holds a token of
\* {1, ..., 6} the chunk is the window up to and including the last such
\* token, otherwise the chunk is the whole window; the last chunk is what
\* is left of the input, at most 510 tokens.
C17_SplitAfterLastPunctuation ==
    pc = "done" =>
        /\ \A k \in 1..(Len(chunks) - 1) :
              LET w == WindowOf(k)
                  hits == {i \in 1..Len(w) : w[i] \in {1, 2, 3, 4, 5, 6}}
              IN  /\ Len(w) = 510
                  /\ TokensBefore(k) + 510 < Len(ids)
                  /\ hits # {} =>
                        \E i \in hits :
                            /\ \A j \in hits : j <= i
                            /\ chunks[k] = SubSeq(w, 1, i)
                  /\ hits = {} => chunks[k] = w
        /\ chunks # <<>> =>
              /\ chunks[Len(chunks)] = WindowOf(Len(chunks))
              /\ TokensBefore(Len(chunks)) + Len(chunks[Len(chunks)])
                    = Len(ids)

\* A first chunk cut after the second of two punctuation tokens of its
\* window, and a second chunk cut at the hard limit of a window without
\* punctuation.
C17_Witness ==
    /\ pc = "done"
    /\ Len(chunks) >= 3
    /\ chunks[1] = <<PhonemeToken, 6, PhonemeToken, 6>>
    /\ Len(chunks[2]) = MAX_PHONEME_LEN
    /\ \A i \in 1..Len(chunks[2]) : chunks[2][i] \notin PUNCT_IDS

---------------------------------------------------------------------------
(* SpecChunkLoop: the while loop of split_chunks, one iteration a step, on *)
(* every input of at most MaxLoopBlocks blocks.  The loop is the only      *)
(* thing running, so an iteration that can be taken is taken.              *)

InitChunkLoop ==
    /\ ids \in BlockSeqs(MaxLoopBlocks)
    /\ chunks = <<>>
    /\ split_start = 0
    /\ pc = "loop"
    /\ EngineIdle /\ FadeIdle /\ VoiceIdle /\ TextIdle /\ BridgeIdle

loopOthersUnchanged ==
    UNCHANGED <<ids, engineVars, fadeVars, voiceVars, textVars, bridgeVars>>

\* while start < ids.len(): the condition is false, chunks is returned.
LoopExit ==
    /\ pc = "loop"
    /\ ~(split_start < Len(ids))
    /\ pc' = "done"
    /\ UNCHANGED <<chunks, split_start>>
    /\ loopOthersUnchanged

\* if end == ids.len() { chunks.push(ids[start..end].to_vec()); break; }
LoopLastChunk ==
    /\ pc = "loop"
    /\ split_start < Len(ids)
    /\ \E end \in {window_end(ids, split_start)} :
          /\ end = Len(ids)
          /\ chunks' = Append(chunks, Slice(ids, split_start, end))
    /\ pc' = "done"
    /\ UNCHANGED split_start
    /\ loopOthersUnchanged

\* chunks.push(ids[start..split].to_vec()); start = split;
LoopSplit ==
    /\ pc = "loop"
    /\ split_start < Len(ids)
    /\ \E end \in {window_end(ids, split_start)} :
          /\ end # Len(ids)
          /\ \E split \in {split_point(ids, split_start, end)} :
                /\ chunks' = Append(chunks, Slice(ids, split_start, split))
                /\ split_start' = split
    /\ pc' = "loop"
    /\ loopOthersUnchanged

NextChunkLoop == LoopExit \/ LoopLastChunk \/ LoopSplit

SpecChunkLoop ==
    InitChunkLoop /\ [][NextChunkLoop]_vars /\ WF_vars(NextChunkLoop)

\* C22: the loop of split_chunks ends on every input.  Every iteration
\* that goes on to another one moves start forward by at least one token
\* and at most to the end of the input, and every iteration that pushes a
\* chunk pushes a non-empty one, so at any time no chunk is empty, the
\* chunks pushed cover the input up to start and there are at most as many
\* chunks as tokens; the loop returns what split_chunks returns, and no
\* chunk at all for the empty input.
C22_SplitChunksTerminates ==
    /\ <>(pc = "done")
    /\ [][/\ pc' = "loop" =>
                (/\ split_start' >= split_start + 1
                 /\ split_start' <= Len(ids))
          /\ chunks' # chunks =>
                (/\ Len(chunks') = Len(chunks) + 1
                 /\ chunks'[Len(chunks')] # <<>>)]_vars
    /\ [](/\ \A k \in 1..Len(chunks) : chunks[k] # <<>>
          /\ Len(chunks) <= Len(ids)
          /\ pc = "loop" => TokensIn(Len(chunks)) = split_start
          /\ pc = "done" => chunks = split_chunks(ids)
          /\ (pc = "done" /\ ids = <<>>) => chunks = <<>>)

\* The loop has returned after an iteration that moved start by one token
\* only: the window began with its one punctuation token, which became a
\* chunk of its own.
C22_Witness ==
    /\ pc = "done"
    /\ Len(chunks) = 4
    /\ Len(chunks[1]) = MAX_PHONEME_LEN
    /\ chunks[2] = <<6>>

---------------------------------------------------------------------------
(* SpecCrossfade: append_with_crossfade applied up to MaxAppends times to  *)
(* an accumulated buffer, with buffers of every length of WaveLens.        *)

InitCrossfade ==
    /\ dst \in {Wave(1, n) : n \in WaveLens}
    /\ src = <<>>
    /\ prev = <<>>
    /\ n_appended = 0
    /\ pc = "call"
    /\ EngineIdle /\ ChunkIdle /\ VoiceIdle /\ TextIdle /\ BridgeIdle

AppendWithCrossfade ==
    /\ n_appended < MaxAppends
    /\ \E n \in WaveLens :
          /\ src' = Wave(n_appended + 2, n)
          /\ dst' = append_with_crossfade(dst, src', CHUNK_CROSSFADE_SAMPLES)
    /\ prev' = dst
    /\ n_appended' = n_appended + 1
    /\ UNCHANGED <<pc, engineVars, chunkVars, voiceVars, textVars,
                   bridgeVars>>

NextCrossfade == AppendWithCrossfade

SpecCrossfade == InitCrossfade /\ [][NextCrossfade]_vars

\* C2 as stated: appending a chunk of at least K = 240 samples to a buffer
\* of at least K samples yields len(a) + len(b) samples.
C2_Original ==
    (n_appended > 0 /\ Len(prev) >= CHUNK_CROSSFADE_SAMPLES
                    /\ Len(src) >= CHUNK_CROSSFADE_SAMPLES)
        => Len(dst) = Len(prev) + Len(src)

\* C2 amended: appending a chunk of at least K = 240 samples to a buffer of
\* at least K samples yields len(a) + len(b) - K samples: the last K samples
\* of the buffer are blended in place with the first K of the chunk, which
\* are not appended again.
C2_CrossfadeLength ==
    (n_appended > 0 /\ Len(prev) >= CHUNK_CROSSFADE_SAMPLES
                    /\ Len(src) >= CHUNK_CROSSFADE_SAMPLES)
        => Len(dst) = Len(prev) + Len(src) - CHUNK_CROSSFADE_SAMPLES

\* Two buffers longer than K were stitched.
C2_Witness ==
    /\ n_appended > 0
    /\ Len(prev) > CHUNK_CROSSFADE_SAMPLES
    /\ Len(src) > CHUNK_CROSSFADE_SAMPLES
    /\ dst # prev

\* The window the claim gives for the last append.
BlendWindow ==
    Min(CHUNK_CROSSFADE_SAMPLES, Min(Len(prev), Len(src)))

\* C18: for buffers of any lengths, an empty accumulated buffer or an empty
\* chunk included, append_with_crossfade reads and writes inside its two
\* buffers only; it blends min(K, len(accumulated), len(chunk)) samples:
\* the accumulated buffer keeps its samples before the window, each of its
\* last samples is mixed with the sample of the same rank at the start of
\* the chunk, and the samples of the chunk after the window follow; with a
\* window of 0 the result is the accumulated buffer followed by the chunk.
C18_CrossfadeWindow ==
    n_appended > 0 =>
        LET w == BlendWindow
            dst_start == Len(prev) - w
        IN  /\ 0 <= dst_start
            /\ w <= Len(src)
            /\ Len(dst) = Len(prev) + Len(src) - w
            /\ \A k \in 1..dst_start : dst[k] = prev[k]
            /\ \A i \in 1..w :
                  dst[dst_start + i]
                     = Mix(prev[dst_start + i], src[i], i, w + 1)
            /\ \A i \in (w + 1)..Len(src) : dst[dst_start + i] = src[i]
            /\ w = 0 => dst = prev \o src

\* A buffer of one sample and a chunk longer than K: a window of one
\* sample; and an empty chunk appended to a buffer longer than K.
C18_Witness ==
    /\ n_appended > 0
    /\ \/ /\ Len(prev) = 1
          /\ Len(src) = CHUNK_CROSSFADE_SAMPLES + 1
          /\ Len(dst) = CHUNK_CROSSFADE_SAMPLES + 1
          /\ dst[1] = Mix(prev[1], src[1], 1, 2)
       \/ /\ Len(prev) > CHUNK_CROSSFADE_SAMPLES
          /\ src = <<>>
          /\ dst = prev

---------------------------------------------------------------------------
(* SpecVoices: VoiceStore::load on every archive of VoiceArchives, then    *)
(* get_style queries on the store it built.                                *)

InitVoices ==
    /\ archive \in VoiceArchives
    /\ store = None
    /\ style_res = None
    /\ pc = "call"
    /\ EngineIdle /\ ChunkIdle /\ FadeIdle /\ TextIdle /\ BridgeIdle

VoiceStoreLoad ==
    /\ pc = "call"
    /\ store' = Some(VoiceStore_load(archive))
    /\ pc' = "loaded"
    /\ UNCHANGED <<archive, style_res, engineVars, chunkVars, fadeVars,
                   textVars, bridgeVars>>

GetStyle ==
    /\ pc = "loaded"
    /\ IsOk(Unwrap(store))
    /\ \E voice \in QueryVoices, idx \in 0..MaxStyleIdx :
          style_res' = Some([idx |-> idx, voice |-> voice,
                             res |-> get_style(Unwrap(store).val, voice, idx)])
    /\ UNCHANGED <<archive, store, pc, engineVars, chunkVars, fadeVars,
                   textVars, bridgeVars>>

NextVoices == VoiceStoreLoad \/ GetStyle

SpecVoices == InitVoices /\ [][NextVoices]_vars

\* C3: for every voice of a store VoiceStore::load built and every index,
\* get_style returns a vector of 256 floats (no panic, no error), and for an
\* index at or past the voice's number of style vectors it is the last one.
C3_GetStyleTotal ==
    (style_res # None /\ Unwrap(style_res).voice \in DOMAIN Unwrap(store).val.voices)
        => LET q == Unwrap(style_res)
               styles == Unwrap(store).val.voices[q.voice]
           IN  /\ IsOk(q.res)
               /\ Len(q.res.val) = STYLE_DIM
               /\ q.idx >= Len(styles) => q.res.val = styles[Len(styles)]

\* The last entry of the archive given, read by parse_npy: its name is not
\* one VoiceStore::load skips and the archive could hand its bytes over.
LastEntry == archive.entries[Len(archive.entries)]

LastEntryParsed ==
    /\ archive.readable /\ archive.zip_ok /\ archive.entries # <<>>
    /\ LastEntry.name \notin {<<"d", "/">>, dot_npy}
    /\ LastEntry.kind \in {"npy", "short", "badmagic", "truncated"}

\* What the claim accepts: the magic bytes, a header that fits, a payload
\* of a multiple of 4 bytes holding a multiple of 256 floats.
Acceptable(e) ==
    /\ e.kind = "npy"
    /\ e.payload_len % 4 = 0
    /\ (e.payload_len \div 4) % 256 = 0

\* Float n (from 0) of the payload of an entry: bytes 4n .. 4n+3, the first
\* the least significant, as a 32-bit two's complement integer.
PayloadFloat(n) ==
    LET b(k) == PayloadByte(4 * n + k)
    IN  b(0) + 256 * b(1) + 65536 * b(2)
           + 16777216 * (IF b(3) < 128 THEN b(3) ELSE b(3) - 256)

\* C15: an entry read by parse_npy is accepted exactly when it starts with
\* the numpy magic bytes, its declared header fits in its bytes and its
\* payload is a multiple of 4 bytes holding a multiple of 256 floats; the
\* load then holds payload_bytes / 1024 style vectors for the entry's
\* voice, vector i made of floats 256 i .. 256 i + 255 of the payload; any
\* other entry makes the load fail with VoiceParse naming the entry.
C15_ParseNpyAccepts ==
    (pc # "call" /\ LastEntryParsed) =>
        LET e == LastEntry
            r == Unwrap(store)
            v == IF e.name = bf_emma THEN bf_emma ELSE af_heart
        IN  IF Acceptable(e)
            THEN /\ IsOk(r)
                 /\ v \in DOMAIN r.val.voices
                 /\ Len(r.val.voices[v]) = e.payload_len \div 1024
                 /\ \A i \in 1..Len(r.val.voices[v]) :
                       /\ Len(r.val.voices[v][i]) = 256
                       /\ \A j \in 1..256 :
                             r.val.voices[v][i][j]
                                = PayloadFloat(256 * (i - 1) + (j - 1))
            ELSE /\ IsErr(r)
                 /\ ErrKind(r) = "VoiceParse"
                 /\ r.val.arg[1] = e.name

\* An entry of 257 floats, refused by name, and an entry of two style
\* vectors behind a header of 300 bytes, accepted.
C15_Witness ==
    /\ pc = "loaded"
    /\ LastEntryParsed
    /\ \/ /\ LastEntry.payload_len = 4 * STYLE_DIM + 4
          /\ LastEntry.kind = "npy"
          /\ store = Some(Err(KokoroError("VoiceParse",
                        <<LastEntry.name, "not a multiple of 256">>)))
       \/ /\ LastEntry.payload_len = 2 * 4 * STYLE_DIM
          /\ LastEntry.header_len = 300
          /\ LastEntry.kind = "npy"
          /\ IsOk(Unwrap(store))

---------------------------------------------------------------------------
(* SpecText: split_text_parts applied to every text of at most MaxTextLen  *)
(* characters of TextAlphabet.                                             *)

InitText ==
    /\ text \in Strings(TextAlphabet, MaxTextLen)
    /\ parts = <<>>
    /\ pc = "call"
    /\ EngineIdle /\ ChunkIdle /\ FadeIdle /\ VoiceIdle /\ BridgeIdle

SplitTextParts ==
    /\ pc = "call"
    /\ parts' = split_text_parts(text)
    /\ pc' = "done"
    /\ UNCHANGED <<text, engineVars, chunkVars, fadeVars, voiceVars,
                   bridgeVars>>

NextText == SplitTextParts

SpecText == InitText /\ [][NextText]_vars

\* Position i of s holds a '.' or ',' with an ASCII digit right before it
\* and right after it.
DigitFlanked(s, i) ==
    /\ s[i] \in {".", ","}
    /\ 1 < i /\ i < Len(s)
    /\ s[i - 1] \in {"0", "1", "2", "3", "4", "5", "6", "7", "8", "9"}
    /\ s[i + 1] \in {"0", "1", "2", "3", "4", "5", "6", "7", "8", "9"}

\* Position i of s holds a boundary punctuation character that splits.
Splits(s, i) ==
    /\ s[i] \in {".", "!", "?", ",", ";", ":", "EM_DASH", "ELLIPSIS", "\"",
                 "(", ")", "LDQUO", "RDQUO", "\n", "\r"}
    /\ ~DigitFlanked(s, i)

\* What the claim expects of the characters of s, left to right: <<"P", c>>
\* for a character that splits (a line break as '.'), <<"T", c>> for a
\* character kept in a Text part, nothing for whitespace.
ExpectedMarks(s) ==
    LET mark(i) ==
            IF Splits(s, i)
            THEN <<"P", IF s[i] \in {"\n", "\r"} THEN "." ELSE s[i]>>
            ELSE <<"T", s[i]>>
        all == [i \in 1..Len(s) |-> mark(i)]
    IN  SelectSeq(all, LAMBDA m : m[1] = "P" \/ m[2] \notin {" ", "\t", "\n", "\r", "NBSP"})

\* What the parts hold, left to right, in the same notation.
RECURSIVE PartMarks(_)
PartMarks(ps) ==
    IF ps = <<>> THEN <<>>
    ELSE LET p == Head(ps)
             here == IF p.kind = "Punct" THEN << <<"P", p.s[1]>> >>
                     ELSE LET cs == SelectSeq(p.s, LAMBDA c : c # " ")
                          IN  [k \in 1..Len(cs) |-> <<"T", cs[k]>>]
         IN  here \o PartMarks(Tail(ps))

\* Some Text part of ps holds the three characters a, b, c in a row.
InOneTextPart(ps, a, b, c) ==
    \E k \in 1..Len(ps) :
        /\ ps[k].kind = "Text"
        /\ \E j \in 1..(Len(ps[k].s) - 2) :
              ps[k].s[j] = a /\ ps[k].s[j + 1] = b /\ ps[k].s[j + 2] = c

\* C10: every boundary punctuation character of the text gives a Punct part
\* at its place among the characters of the text, except a '.' or ',' with
\* an ASCII digit on both sides, which stays in the Text part holding the
\* two digits; a '.' or ',' with a digit on one side only, or at an end of
\* the text, splits.
C10_PunctuationSplits ==
    pc = "done" =>
        /\ PartMarks(parts) = ExpectedMarks(text)
        /\ \A i \in 1..Len(text) :
              DigitFlanked(text, i)
                  => InOneTextPart(parts, text[i - 1], text[i], text[i + 1])

\* A text with a digit-flanked separator kept in its Text part and a comma
\* with a digit on its left only, which split.
C10_Witness ==
    /\ pc = "done"
    /\ text = <<"1", ".", "1", ",">>
    /\ parts = <<Text(<<"1", ".", "1">>), Punct(",")>>

\* The stretches of s between the characters that split, left to right
\* (cur is the stretch being read at position i).
RECURSIVE Stretches(_, _, _)
Stretches(s, i, cur) ==
    IF i > Len(s) THEN <<cur>>
    ELSE IF Splits(s, i) THEN <<cur>> \o Stretches(s, i + 1, <<>>)
    ELSE Stretches(s, i + 1, Append(cur, s[i]))

\* The words of a stretch (its maximal runs of non-whitespace characters)
\* joined by one space each.
RECURSIVE SpacedWords(_, _, _)
SpacedWords(seg, i, out) ==
    IF i > Len(seg) THEN out
    ELSE IF seg[i] \in {" ", "\t", "\n", "\r", "NBSP"}
    THEN SpacedWords(seg, i + 1, out)
    ELSE SpacedWords(seg, i + 1,
             IF out # <<>> /\ i > 1 /\ seg[i - 1] \in {" ", "\t", "\n", "\r", "NBSP"}
             THEN out \o <<" ", seg[i]>> ELSE Append(out, seg[i]))

\* The Text parts the claim expects of s: the spaced words of every stretch
\* that has a word.
ExpectedTexts(s) ==
    LET st == Stretches(s, 1, <<>>)
        norm == [k \in 1..Len(st) |-> SpacedWords(st[k], 1, <<>>)]
    IN  SelectSeq(norm, LAMBDA w : w # <<>>)

TextsOf(ps) ==
    LET ts == SelectSeq(ps, LAMBDA p : p.kind = "Text")
    IN  [k \in 1..Len(ts) |-> ts[k].s]

\* C11: every Text part split_text_parts emits is non-empty, starts and
\* ends with a non-whitespace character and holds no two whitespace
\* characters in a row, its only whitespace being single spaces; the Text
\* parts are the stretches of the text between its splitting characters,
\* each run of whitespace collapsed to one space and the ends trimmed, the
\* stretches left empty by that being dropped.
C11_TextPartsNormalised ==
    pc = "done" =>
        /\ \A k \in 1..Len(parts) :
              parts[k].kind = "Text" =>
                 LET t == parts[k].s IN
                 /\ t # <<>>
                 /\ t[1] \notin {" ", "\t", "\n", "\r", "NBSP"}
                 /\ t[Len(t)] \notin {" ", "\t", "\n", "\r", "NBSP"}
                 /\ \A j \in 1..Len(t) : t[j] \notin {"\t", "\n", "\r", "NBSP"}
                 /\ \A j \in 1..(Len(t) - 1) : ~(t[j] = " " /\ t[j + 1] = " ")
        /\ TextsOf(parts) = ExpectedTexts(text)

\* A run of a tab and a space between two letters collapsed to one space,
\* and a text whose only stretch with a word follows an empty stretch.
C11_Witness ==
    /\ pc = "done"
    /\ \/ /\ text = <<"a", "\t", " ", "a">>
          /\ parts = <<Text(<<"a", " ", "a">>)>>
       \/ /\ text = <<" ", "!", " ", "a">>
          /\ parts = <<Punct("!"), Text(<<"a">>)>>

---------------------------------------------------------------------------
(* SpecPayload: canonicalize_espeak_stdin_payload applied to every string  *)
(* of at most MaxPayloadLen characters of PayloadAlphabet.                 *)

MaxPayloadLen == 4
PayloadAlphabet == {"a", "\n", "\r"}

InitPayload ==
    /\ stdin_input \in Strings(PayloadAlphabet, MaxPayloadLen)
    /\ stdin_payload = None /\ lang_voice = <<>> /\ lang_code = None
    /\ espeak = None /\ phon = None
    /\ pc = "call"
    /\ EngineIdle /\ ChunkIdle /\ FadeIdle /\ VoiceIdle /\ TextIdle

CanonicalizePayload ==
    /\ pc = "call"
    /\ stdin_payload' = Some(canonicalize_espeak_stdin_payload(stdin_input))
    /\ pc' = "done"
    /\ UNCHANGED <<stdin_input, lang_voice, lang_code, espeak, phon,
                   engineVars, chunkVars, fadeVars, voiceVars, textVars>>

NextPayload == CanonicalizePayload

SpecPayload == InitPayload /\ [][NextPayload]_vars

\* s ends in a newline that no other newline precedes.
EndsInOneNewline(s) ==
    /\ Len(s) >= 1 /\ s[Len(s)] = "\n"
    /\ Len(s) >= 2 => s[Len(s) - 1] # "\n"

EndsInNewline(s) == Len(s) >= 1 /\ s[Len(s)] = "\n"

---------------------------------------------------------------------------
(* SpecVoiceLang: voice_lang applied to every voice name of at most        *)
(* MaxVoiceLen characters of VoiceAlphabet.                                *)

MaxVoiceLen == 3
VoiceAlphabet == {"a", "b", "f", "m", "_", "E_ACUTE", "EM_DASH"}

InitVoiceLang ==
    /\ lang_voice \in Strings(VoiceAlphabet, MaxVoiceLen)
    /\ lang_code = None
    /\ stdin_input = <<>> /\ stdin_payload = None
    /\ espeak = None /\ phon = None
    /\ pc = "call"
    /\ EngineIdle /\ ChunkIdle /\ FadeIdle /\ VoiceIdle /\ TextIdle

VoiceLang ==
    /\ pc = "call"
    /\ lang_code' = Some(voice_lang(lang_voice))
    /\ pc' = "done"
    /\ UNCHANGED <<lang_voice, stdin_input, stdin_payload, espeak, phon,
                   engineVars, chunkVars, fadeVars, voiceVars, textVars>>

NextVoiceLang == VoiceLang

SpecVoiceLang == InitVoiceLang /\ [][NextVoiceLang]_vars

\* The language of the prefix table for the first two characters of a
\* name, en-us when they are no prefix of the table.
LangOfPrefix(name) ==
    LET p == SubSeq(name, 1, Min(Len(name), 2)) IN
    CASE p \in {<<"a", "f">>, <<"a", "m">>} -> "en-us"
      [] p \in {<<"b", "f">>, <<"b", "m">>} -> "en-gb"
      [] p \in {<<"e", "f">>, <<"e", "m">>} -> "es"
      [] p = <<"f", "f">> -> "fr"
      [] p \in {<<"h", "f">>, <<"h", "m">>} -> "hi"
      [] p \in {<<"i", "f">>, <<"i", "m">>} -> "it"
      [] p \in {<<"j", "f">>, <<"j", "m">>} -> "ja"
      [] p \in {<<"p", "f">>, <<"p", "m">>} -> "pt-br"
      [] p \in {<<"z", "f">>, <<"z", "m">>} -> "cmn"
      [] OTHER -> "en-us"

\* C16: voice_lang returns, for every voice name, the language of the
\* prefix table for the name's first two characters, en-us when they are
\* not a prefix of the table; it does not fail on an empty name, a name of
\* one character or a name that starts with characters outside ASCII.
C16_VoiceLangTotal ==
    pc = "done" =>
        /\ IsOk(Unwrap(lang_code))
        /\ Unwrap(lang_code).val = LangOfPrefix(lang_voice)

---------------------------------------------------------------------------
(* SpecPhonemize: phonemize applied to every text of at most               *)
(* MaxPhonTextLen characters of PhonAlphabet, under each vocabulary of     *)
(* PhonVocabs and each behaviour of espeak-ng of PhonOracles.              *)

MaxPhonTextLen == 4
PhonAlphabet == {"a", "b", ",", "\n", " "}
PhonVocabs == {"hardcoded", "config"}

\* The vocabulary a model directory without config.json gives and the one
\* its config.json gives.
VocabOf(v) == IF v = "hardcoded" THEN hardcoded_vocab ELSE phoneme_only_vocab

\* The strings of the Text parts of ps, in order (text_segments of
\* phonemize).
text_segments(ps) ==
    LET segs == SelectSeq(ps, LAMBDA p : p.kind = "Text")
    IN  [k \in 1..Len(segs) |-> segs[k].s]

\* The behaviours of espeak-ng during a call on text s: it serves every
\* invocation, printing lines of 0, 1 or 2 phonemes one per input line,
\* merged or split; or one of the invocations the call can make (the batch
\* and one per segment) fails.
PhonOracles(s) ==
    LET n == Len(text_segments(split_text_parts(s))) IN
    IF n = 0 THEN {Espeak(0, "", "perline", 1)}
    ELSE {Espeak(0, "", m, l) :
              m \in {"perline", "merged", "split"}, l \in {0, 1, 2}}
            \cup {Espeak(f, k, m, 1) :
                     f \in 1..(n + 1),
                     k \in {"EspeakNotFound", "PhonemizerFailed", "Io"},
                     m \in {"perline", "split"}}

InitPhonemize ==
    /\ text \in Strings(PhonAlphabet, MaxPhonTextLen)
    /\ espeak \in {Some(e) : e \in PhonOracles(text)}
    /\ parts = <<>>
    /\ phon = None
    /\ stdin_input = <<>> /\ stdin_payload = None
    /\ lang_voice = <<>> /\ lang_code = None
    /\ pc = "call"
    /\ EngineIdle /\ ChunkIdle /\ FadeIdle /\ VoiceIdle

\* phonemize(text, "en-us", vocab): the parts of the text, the segments
\* handed to phonemize_segments_batch and what it returned (None when the
\* text has no Text part and the bridge is not called), the result and the
\* invocations of espeak-ng made.
Phonemize ==
    /\ pc = "call"
    /\ \E v \in PhonVocabs :
       \E ps \in {split_text_parts(text)} :
       \E out \in {phonemize(Unwrap(espeak), text, "en-us", VocabOf(v))} :
          /\ parts' = ps
          /\ phon' = Some(
                [vocab |-> v, res |-> out.res, calls |-> out.calls,
                 segments |-> text_segments(ps),
                 batch |-> IF text_segments(ps) = <<>> THEN None
                           ELSE Some(phonemize_segments_batch(
                                         Unwrap(espeak), text_segments(ps),
                                         "en-us", VocabOf(v)).res)])
    /\ pc' = "done"
    /\ UNCHANGED <<text, espeak, stdin_input, stdin_payload, lang_voice,
                   lang_code, engineVars, chunkVars, fadeVars, voiceVars>>

NextPhonemize == Phonemize

SpecPhonemize == InitPhonemize /\ [][NextPhonemize]_vars

\* What espeak-ng printed for invocation k of the call.
StdoutOf(k) == espeak_stdout(Unwrap(espeak), Unwrap(phon).calls[k].payload)

\* The batched invocation of the call was served and printed as many lines
\* as there are segments.
BatchMatched ==
    /\ Unwrap(phon).calls[1].ok
    /\ Len(Lines(StdoutOf(1))) = Len(Unwrap(phon).segments)

\* C13: when the bridge is called, its first invocation is the batch, one
\* segment per line.  If it is served with as many lines as segments, it is
\* the only invocation and fragment i is the tokens of line i.  If it is
\* served with another number of lines, invocations 2, 3, ... are made on
\* segments 1, 2, ... alone, in order and at most one each, and when all of
\* them are served fragment i is the tokens of the output for segment i.
\* Whenever every invocation is served the bridge returns one fragment per
\* segment, fragment i holding phonemes of segment i only.
C13_OneFragmentPerSegment ==
    (pc = "done" /\ Unwrap(phon).batch # None) =>
        LET p == Unwrap(phon)
            segs == p.segments
            calls == p.calls
            b == Unwrap(p.batch)
            vocab == VocabOf(p.vocab)
        IN  /\ calls # <<>>
            /\ calls[1].ok =>
                  calls[1].payload = join_lines(segs) \o <<"\n">>
            /\ BatchMatched =>
                  /\ Len(calls) = 1
                  /\ IsOk(b)
                  /\ b.val = [i \in 1..Len(segs) |->
                                 ipa_to_ids(Lines(StdoutOf(1))[i], vocab)]
            /\ (calls[1].ok /\ ~BatchMatched) =>
                  /\ Len(calls) <= 1 + Len(segs)
                  /\ \A i \in 1..(Len(calls) - 1) :
                        calls[i + 1].ok =>
                            calls[i + 1].payload = segs[i] \o <<"\n">>
                  /\ IsOk(b) =>
                        /\ Len(calls) = 1 + Len(segs)
                        /\ b.val = [i \in 1..Len(segs) |->
                                       ipa_to_ids(StdoutOf(i + 1), vocab)]
            /\ (\A k \in 1..Len(calls) : calls[k].ok) <=> IsOk(b)
            /\ IsOk(b) =>
                  /\ Len(b.val) = Len(segs)
                  /\ \A i \in 1..Len(segs) :
                        \A j \in 1..Len(b.val[i]) :
                            b.val[i][j] = vocab[segs[i][1]]
                  /\ Unwrap(espeak).mode = "perline" =>
                        \A i \in 1..Len(segs) :
                            Len(b.val[i]) = Unwrap(espeak).line_len

\* Two segments whose batch came back on one line: the fallback made one
\* invocation per segment and returned the fragment of each.
C13_Witness ==
    /\ pc = "done"
    /\ Unwrap(phon).batch # None
    /\ Unwrap(phon).segments = << <<"a">>, <<"b">> >>
    /\ Unwrap(espeak).mode = "merged"
    /\ Len(Unwrap(phon).calls) = 3
    /\ Unwrap(phon).batch = Some(Ok(<< <<43>>, <<44>> >>))

\* The fragments the bridge returned for the Text parts of the call.
FragmentsOf(p) == IF p.batch = None THEN <<>> ELSE Unwrap(p.batch).val

\* The rank of part i among the Text parts.
TextRank(i) == Cardinality({j \in 1..i : parts[j].kind = "Text"})

\* C19: the tokens phonemize returns are, part after part in the order of
\* the text, the fragment the bridge returned for the part when it is a
\* Text part (the k-th fragment for the k-th Text part, its tokens being
\* phonemes of that part) and the vocabulary id of the character when it is
\* a Punct part, nothing when the vocabulary does not map the character.
C19_TokensFollowTextOrder ==
    (pc = "done" /\ IsOk(Unwrap(phon).res)) =>
        LET p == Unwrap(phon)
            vocab == VocabOf(p.vocab)
            frags == FragmentsOf(p)
            piece(i) ==
                IF parts[i].kind = "Text" THEN frags[TextRank(i)]
                ELSE IF parts[i].s[1] \in DOMAIN vocab
                THEN <<vocab[parts[i].s[1]]>>
                ELSE <<>>
        IN  /\ parts = split_text_parts(text)
            /\ Len(frags) = TextRank(Len(parts))
            /\ p.res.val = Flatten([i \in 1..Len(parts) |-> piece(i)])
            /\ \A i \in 1..Len(parts) :
                  parts[i].kind = "Text" =>
                     \A j \in 1..Len(piece(i)) :
                         piece(i)[j] = vocab[parts[i].s[1]]

\* Two Text parts, each followed by a boundary: the tokens of a, the comma,
\* the tokens of b, the '.' of the line break.
C19_Witness ==
    /\ pc = "done"
    /\ text = <<"a", ",", "b", "\n">>
    /\ Unwrap(phon).vocab = "hardcoded"
    /\ Unwrap(phon).res = Ok(<<43, 3, 44, 4>>)

\* C20: within a call, an invocation of espeak-ng that fails (executable
\* not found, non-zero exit, I/O error) is the last invocation of the call
\* and the call returns its error; the invocations after the batch are made
\* only when the batch was served with a line count that does not match,
\* at most one per segment, and they end with the first that fails.
C20_NoPhonemizerRetry ==
    pc = "done" =>
        LET p == Unwrap(phon)
            esp == Unwrap(espeak)
            calls == p.calls
        IN  /\ \A k \in 1..(Len(calls) - 1) : calls[k].ok
            /\ (calls # <<>> /\ ~calls[Len(calls)].ok) =>
                  /\ Len(calls) = esp.fail_at
                  /\ IsErr(p.res)
                  /\ ErrKind(p.res) = esp.fail_kind
            /\ (\A k \in 1..Len(calls) : calls[k].ok) => IsOk(p.res)
            /\ Len(calls) >= 2 => (calls[1].ok /\ ~BatchMatched)
            /\ Len(calls) <= 1 + Len(p.segments)
            /\ (/\ p.segments # <<>>
                /\ esp.fail_at \in 1..(1 + Len(p.segments))
                /\ (esp.fail_at = 1 \/ ~BatchMatched)) =>
                  Len(calls) = esp.fail_at

\* A fallback over two segments whose first invocation failed: the second
\* segment was not tried, the call returned the failure.
C20_Witness ==
    /\ pc = "done"
    /\ Len(Unwrap(phon).segments) = 2
    /\ Len(Unwrap(phon).calls) = 2
    /\ Unwrap(phon).calls[1].ok
    /\ ~Unwrap(phon).calls[2].ok
    /\ ErrKind(Unwrap(phon).res) = "PhonemizerFailed"

---------------------------------------------------------------------------
(* Spec: the engine.  KokoroEngine::new, then load_model,                  *)
(* load_model_with_params, unload_model, synthesize and list_voices in any *)
(* order, each call running to its end before the next.                    *)

Init ==
    /\ EngineIdle
    /\ ChunkIdle /\ FadeIdle /\ VoiceIdle /\ TextIdle /\ BridgeIdle
    /\ pc = "engine"

othersUnchanged ==
    UNCHANGED <<chunkVars, fadeVars, voiceVars, textVars, bridgeVars, pc>>

Load(op, dir, params) ==
    \E r \in {KokoroModel_load(dir, params.num_threads,
                                params.optimized_model_cache_path,
                                cache_exists)} :
        /\ model' = model_after_load(model, r.res)
        /\ model_path' = model_path_after_load(model_path, dir.path, r.res)
        /\ cache_exists' =
              (cache_exists
                  \/ (IsSome(r.session) /\ Unwrap(r.session).cache_written))
        /\ last' = CallRecord(op, <<dir, params>>,
                              IF IsOk(r.res) THEN Ok(<<>>) ELSE r.res,
                              IsSome(model), <<>>, None, <<>>, r.session)
        /\ othersUnchanged

LoadModel == \E dir \in ModelDirs : Load("load_model", dir, default_model_params)

LoadModelWithParams ==
    \E dir \in ModelDirs, params \in ModelParams :
        Load("load_model_with_params", dir, params)

UnloadModel ==
    /\ model' = model_after_unload(model)
    /\ model_path' = None
    /\ last' = CallRecord("unload_model", <<>>, Ok(<<>>), IsSome(model), <<>>,
                          None, <<>>, None)
    /\ UNCHANGED cache_exists
    /\ othersUnchanged

ListVoices ==
    /\ last' = CallRecord("list_voices", <<>>, Ok(engine_list_voices(model)),
                          IsSome(model), <<>>, None, <<>>, None)
    /\ UNCHANGED <<model, model_path, cache_exists>>
    /\ othersUnchanged

SynthesizeLoaded(s, params) ==
    LET m == Unwrap(model)
        p == IF IsSome(params) THEN Unwrap(params)
             ELSE default_inference_params
    IN  \E esp \in EspeakOracles(s) :
        \E prep \in {text_to_chunks(m, s, p.voice, esp)} :
        \E inf \in InferOracles(RunsPossible(m, prep, p.voice)) :
        \E out \in {synthesize_text(m, prep, p.voice, p.speed, p.style_index,
                                    inf)} :
            /\ last' = CallRecord("synthesize", <<s, params>>,
                           IF IsOk(out.res)
                           THEN Ok([samples |-> out.res.val,
                                    sample_rate |-> SAMPLE_RATE])
                           ELSE out.res,
                           IsSome(model), out.calls,
                           IF IsSome(out.tokens)
                           THEN Some(Len(Unwrap(out.tokens))) ELSE None,
                           out.infer_log, None)
            /\ model' = model_after_synthesize(model, out.res)

Synthesize ==
    \E s \in EngineTexts, params \in SynthesisParams :
        /\ IF model_not_loaded(model)
           THEN /\ last' = CallRecord("synthesize", <<s, params>>,
                               Err(KokoroError("ModelNotLoaded", "")),
                               IsSome(model), <<>>, None, <<>>, None)
                /\ UNCHANGED model
           ELSE SynthesizeLoaded(s, params)
        /\ UNCHANGED <<model_path, cache_exists>>
        /\ othersUnchanged

Next ==
    \/ LoadModel
    \/ LoadModelWithParams
    \/ UnloadModel
    \/ ListVoices
    \/ Synthesize

Spec == Init /\ [][Next]_vars

---------------------------------------------------------------------------
(* Claims on the engine.                                                   *)

LoadOps == {"load_model", "load_model_with_params"}
ModelNotLoaded == Err(KokoroError("ModelNotLoaded", ""))
VoiceFileNotFound == Err(KokoroError("Io", <<"NotFound", "Voice file not found">>))

\* The directory of the last load call, the text and the style index
\* override of the last synthesize call.
LastDir(l) == l.args[1]
LastText(l) == l.args[1]
LastOverride(l) ==
    IF IsSome(l.args[2]) THEN Unwrap(l.args[2]).style_index ELSE None
NoWork(l) == l.calls = <<>> /\ l.n_tokens = None /\ l.infer_log = <<>>

\* C4: the engine starts Unloaded and unload_model leaves it Unloaded; a
\* synthesize call on an Unloaded engine fails with ModelNotLoaded, invokes
\* no phonemizer, produces no tokens, runs no inference and leaves the engine
\* Unloaded; a synthesize call on a Loaded engine is never rejected with
\* ModelNotLoaded.
C4_SynthesizeOnlyWhileLoaded ==
    /\ model = None
    /\ [][/\ last'.op = "unload_model" => model' = None
          /\ (last'.op = "synthesize" /\ model = None) =>
                (last'.res = ModelNotLoaded /\ NoWork(last') /\ model' = None)
          /\ (last'.op = "synthesize" /\ model # None) =>
                last'.res # ModelNotLoaded]_vars

\* A synthesize call rejected on an Unloaded engine that load calls were
\* made on before (one of them wrote the optimized graph cache).
C4_Witness ==
    /\ last.op = "synthesize"
    /\ last.res = ModelNotLoaded
    /\ model = None
    /\ cache_exists

\* C5 as stated: a load from a directory without its voice archive fails
\* with a NotFound I/O error and leaves the engine without a model, whatever
\* the state the load was issued in.
C5_Original ==
    (last.op \in LoadOps /\ LastDir(last).voices = None) =>
        (/\ IsErr(last.res)
         /\ ErrKind(last.res) = "Io"
         /\ last.res.val.arg[1] = "NotFound"
         /\ model = None)

\* C5, amended: a load from a directory without its voice archive fails and
\* leaves the engine's model as it was before the call (an Unloaded engine
\* stays Unloaded, a Loaded engine keeps the model it had); the failure is
\* the NotFound I/O error of the voice file whenever the graph file was
\* found and its session was initialised, and otherwise the failure of the
\* step that failed before the voice file was looked at.
C5_MissingVoicesKeepsModel ==
    [][(last'.op \in LoadOps /\ LastDir(last').voices = None) =>
          (/\ IsErr(last'.res)
           /\ model' = model
           /\ model_path' = model_path
           /\ (IsSome(last'.session) /\ IsOk(Unwrap(last'.session).res)) =>
                 last'.res = VoiceFileNotFound
           /\ (IsSome(last'.session) /\ ~IsOk(Unwrap(last'.session).res)) =>
                 last'.res = Unwrap(last'.session).res)]_vars

\* A load without voice archive issued on a Loaded engine: it failed with
\* the NotFound error and the engine still holds a model.
C5_Witness ==
    /\ last.op \in LoadOps
    /\ LastDir(last).voices = None
    /\ last.res = VoiceFileNotFound
    /\ last.was_loaded
    /\ model # None

\* C6: a synthesize call on a Loaded engine that returns an error leaves
\* the engine's model and its voice list as they were, and a synthesize
\* call that follows it is not rejected with ModelNotLoaded.
C6_SynthesisErrorKeepsModel ==
    [][/\ (last'.op = "synthesize" /\ model # None /\ IsErr(last'.res)) =>
             (/\ model' = model
              /\ model_path' = model_path
              /\ engine_list_voices(model') = engine_list_voices(model))
       /\ (/\ last.op = "synthesize" /\ last.was_loaded /\ IsErr(last.res)
           /\ last'.op = "synthesize") =>
             last'.res # ModelNotLoaded]_vars

\* An inference error on the second chunk of a request, the engine still
\* holding its model and its two voices.
C6_Witness ==
    /\ last.op = "synthesize"
    /\ last.was_loaded
    /\ IsErr(last.res)
    /\ ErrKind(last.res) = "Ort"
    /\ Len(last.infer_log) = 2
    /\ model # None
    /\ engine_list_voices(model) = <<af_heart, bf_emma>>

\* C7 as stated: on a Loaded engine, a text that is empty or made of
\* whitespace only gives Ok with no samples and no inference run.
C7_Original ==
    (/\ last.op = "synthesize"
     /\ last.was_loaded
     /\ \A i \in 1..Len(LastText(last)) : is_whitespace(LastText(last)[i])) =>
        (/\ last.res = Ok([samples |-> <<>>, sample_rate |-> SAMPLE_RATE])
         /\ last.infer_log = <<>>)

\* C7, amended: on a Loaded engine, a call whose phonemization succeeds
\* with zero tokens returns Ok with no samples and runs no inference; this
\* is the case of the empty text and of a text of spaces and tabs (for
\* which espeak-ng is not invoked either), and of a text whose phonemes the
\* vocabulary does not map.  A line break is not such a text: it is a
\* sentence boundary, mapped to '.'.
C7_NoTokensNoInference ==
    /\ (last.op = "synthesize" /\ last.was_loaded /\ last.n_tokens = Some(0)) =>
          (/\ last.res = Ok([samples |-> <<>>, sample_rate |-> SAMPLE_RATE])
           /\ last.infer_log = <<>>)
    /\ (/\ last.op = "synthesize"
        /\ last.was_loaded
        /\ \A i \in 1..Len(LastText(last)) : LastText(last)[i] \in {" ", "\t"}) =>
          (last.n_tokens = Some(0) /\ last.calls = <<>>)

\* A text with a Text part whose phonemes are all outside the vocabulary:
\* espeak-ng was invoked, no token came out, the result is Ok and empty.
C7_Witness ==
    /\ last.op = "synthesize"
    /\ last.was_loaded
    /\ last.calls # <<>>
    /\ last.n_tokens = Some(0)
    /\ last.res = Ok([samples |-> <<>>, sample_rate |-> SAMPLE_RATE])

\* C8: every inference run of a synthesize call looked its style vector up
\* at the same index: the override when the call gave one, otherwise the
\* number of tokens of the whole request.
C8_StableStyleIndex ==
    last.op = "synthesize" =>
        \A k \in 1..Len(last.infer_log) :
            last.infer_log[k].style_idx =
                IF IsSome(LastOverride(last)) THEN Unwrap(LastOverride(last))
                ELSE Unwrap(last.n_tokens)

\* A request without override split into three chunks of different
\* lengths, all three inferred.
C8_Witness ==
    /\ last.op = "synthesize"
    /\ LastOverride(last) = None
    /\ Len(last.infer_log) = 3
    /\ last.infer_log[2].seq_len # last.infer_log[3].seq_len
    /\ Unwrap(last.n_tokens) > MAX_PHONEME_LEN

\* C9: when an inference run of a synthesize call fails, the call returns
\* the inference error (no waveform) and that run is the last one made.
C9_ChunkFailureAborts ==
    last.op = "synthesize" =>
        \A k \in 1..Len(last.infer_log) :
            ~last.infer_log[k].ok =>
                (/\ IsErr(last.res)
                 /\ ErrKind(last.res) = "Ort"
                 /\ k = Len(last.infer_log))

\* A request of three chunks whose second inference run failed: the first
\* chunk's waveform is not returned and the third chunk was not inferred.
C9_Witness ==
    /\ last.op = "synthesize"
    /\ Len(last.infer_log) = 2
    /\ Unwrap(last.n_tokens) = 3 * (MAX_PHONEME_LEN \div 2) + 2
    /\ last.infer_log[1].ok
    /\ ~last.infer_log[2].ok
    /\ IsErr(last.res)

\* C14: the decision of init_session in a load call that reached it is
\* given by the cache path of the call and the existence of the cache file
\* when the call was made, whatever the directory, the thread count and the
\* engine's state: with a path and the file, the cached graph is loaded
\* with optimization disabled and the file is left as it is; with a path
\* and no file, the directory's graph is loaded at Level3 and the optimized
\* graph is written to the path (the file exists afterwards when the
\* session was built); without a path, the directory's graph is loaded at
\* Level3 and no file is written.
C14_CacheDecision ==
    [][(last'.op \in LoadOps /\ IsSome(last'.session)) =>
          LET given == IsSome(last'.args[2].optimized_model_cache_path)
              s == Unwrap(last'.session)
          IN  /\ (given /\ cache_exists) =>
                    /\ s.decision = [load_path |-> "cache",
                                     opt_level |-> "Disable",
                                     write_cache |-> FALSE]
                    /\ ~s.cache_written
                    /\ cache_exists'
              /\ (given /\ ~cache_exists) =>
                    /\ s.decision = [load_path |-> "onnx",
                                     opt_level |-> "Level3",
                                     write_cache |-> TRUE]
                    /\ cache_exists' <=> IsOk(s.res)
              /\ ~given =>
                    /\ s.decision = [load_path |-> "onnx",
                                     opt_level |-> "Level3",
                                     write_cache |-> FALSE]
                    /\ cache_exists' = cache_exists]_vars

\* A load served from the cache file an earlier load wrote.
C14_Witness ==
    /\ last.op \in LoadOps
    /\ IsSome(last.session)
    /\ Unwrap(last.session).decision.load_path = "cache"
    /\ Unwrap(last.session).decision.opt_level = "Disable"
    /\ cache_exists
    /\ IsOk(last.res)

\* C21: a load call that fails, whatever the step that failed (no graph
\* file, session initialisation, voice archive missing or malformed,
\* config.json unreadable), leaves the engine's model and model_path as
\* they were before the call: an Unloaded engine stays Unloaded, a Loaded
\* engine keeps the model and the path of its last successful load, and a
\* synthesize call that follows is not rejected with ModelNotLoaded.
C21_FailedLoadKeepsEngine ==
    [][/\ (last'.op \in LoadOps /\ IsErr(last'.res)) =>
             (/\ model' = model
              /\ model_path' = model_path
              /\ IsSome(model') <=> last'.was_loaded
              /\ engine_list_voices(model') = engine_list_voices(model))
       /\ (/\ last.op \in LoadOps /\ IsErr(last.res) /\ last.was_loaded
           /\ last'.op = "synthesize") =>
             last'.res # ModelNotLoaded]_vars

\* A reload from a directory whose graph the runtime rejects, issued on an
\* engine loaded from "kokoro": the engine still holds that model, its two
\* voices and its path.
C21_Witness ==
    /\ last.op \in LoadOps
    /\ LastDir(last).path = "bad-graph"
    /\ ErrKind(last.res) = "Ort"
    /\ last.was_loaded
    /\ model_path = Some("kokoro")
    /\ engine_list_voices(model) = <<af_heart, bf_emma>>

\* The voice of a synthesize call, and whether the engine's store holds it.
LastVoice(l) ==
    IF IsSome(l.args[2]) THEN Unwrap(l.args[2]).voice
    ELSE default_inference_params.voice
VoiceKnown(l) == LastVoice(l) \in DOMAIN Unwrap(model).voice_store.voices
VoiceNotFound(l) == Err(KokoroError("VoiceNotFound", LastVoice(l)))
HasTextPart(s) ==
    \E k \in 1..Len(split_text_parts(s)) : split_text_parts(s)[k].kind = "Text"

\* C23: a synthesize call on a Loaded engine phonemizes the text before it
\* looks the voice up, and looks the voice up before each inference run.
\* With a voice the store does not hold: espeak-ng is invoked whenever the
\* text has a Text part, and a failure of it is what the call returns;
\* when phonemization gives one token or more the call returns
\* VoiceNotFound for that voice and no inference run was made; when it
\* gives no token the call returns Ok with no samples.  VoiceNotFound is
\* returned only after phonemization gave a token, and an inference run is
\* made only for a voice the store holds.
C23_PhonemizeThenVoiceThenInference ==
    (last.op = "synthesize" /\ last.was_loaded) =>
        /\ ~VoiceKnown(last) =>
              /\ HasTextPart(LastText(last)) => last.calls # <<>>
              /\ (\E k \in 1..Len(last.calls) : ~last.calls[k].ok) =>
                    (/\ IsErr(last.res)
                     /\ ErrKind(last.res)
                           \in {"EspeakNotFound", "PhonemizerFailed", "Io"}
                     /\ last.n_tokens = None)
              /\ (IsSome(last.n_tokens) /\ Unwrap(last.n_tokens) >= 1) =>
                    last.res = VoiceNotFound(last)
              /\ last.n_tokens = Some(0) =>
                    last.res = Ok([samples |-> <<>>,
                                  sample_rate |-> SAMPLE_RATE])
              /\ last.infer_log = <<>>
        /\ ErrKind(last.res) = "VoiceNotFound" =>
              /\ ~VoiceKnown(last)
              /\ last.res = VoiceNotFound(last)
              /\ IsSome(last.n_tokens) /\ Unwrap(last.n_tokens) >= 1
              /\ \A k \in 1..Len(last.calls) : last.calls[k].ok
        /\ last.infer_log # <<>> => VoiceKnown(last)

\* A call with an unknown voice whose text was phonemized by two espeak-ng
\* invocations into tokens: VoiceNotFound, no inference run.
C23_Witness ==
    /\ last.op = "synthesize"
    /\ last.was_loaded
    /\ LastVoice(last) = zz_none
    /\ Len(last.calls) >= 2
    /\ Unwrap(last.n_tokens) >= 1
    /\ last.res = Err(KokoroError("VoiceNotFound", zz_none))
    /\ last.infer_log = <<>>

====
